---------------------------- MODULE Spec2Model ----------------------------
(***************************************************************************)
(* WarFrontIO/api: the authentication state machine and token lifecycle.   *)
(*                                                                         *)
(* The module models src/src/auth/TokenManager.ts (the credential signer   *)
(* and the AuthenticationManager), src/unnamed/part_002 lines 1-78 (the    *)
(* account_tokens adapter the manager calls), src/unnamed/part_003 (the    *)
(* TokenBucket), src/src/util/Housekeeping.ts, the route callback of       *)
(* src/src/util/RouteBuilder.ts and the Discord adapter.                   *)
(*                                                                         *)
(* JavaScript runs one handler at a time; a handler gives up control only  *)
(* at an await.  Each action below is therefore one run-to-completion      *)
(* segment of a handler: from its call, or from the resumption after an    *)
(* await, up to the next await or the return.  A request in flight is a    *)
(* slot of calls, whose pc names the await it is suspended at; last holds  *)
(* what the segment that ran last did: the response it returned (status,   *)
(* body) or that it passed its checks and suspended (status 0).            *)
(*                                                                         *)
(* randomBytes(n) is modelled as a value never drawn before (rand counts   *)
(* the draws); 0 stands for an absent or empty request parameter.          *)
(*                                                                         *)
(* The specifications share the variables.  Spec is the login handshake    *)
(* (handleLogin, handleResponse, handleInitialToken and the sweep);        *)
(* SpecSweep is one browser's handshake under a fair clock and a fair      *)
(* sweep; SpecHandoff starts with two code exchanges in flight.            *)
(* SpecBucket is one TokenBucket under its callers, SpecWindow a bucket    *)
(* with a used counter already there, SpecOversize a bucket asked for more *)
(* than its capacity.  SpecAuth is verifyRequest and authService on the    *)
(* shared authPool, SpecRace verifyRequest in its two segments with calls  *)
(* side by side, SpecRoute the callback RouteBuilder wraps around a        *)
(* handler.  SpecSession is POST /token (handleRefreshToken over the       *)
(* account_tokens table) with the verification of the access tokens it     *)
(* issues, SpecRotate POST /token over two Devices, SpecStore revoke and   *)
(* logout over a table of three Devices beside verifyRequest, SpecRevoke   *)
(* POST /token beside revoke and logout.  SpecToken is the signing and the *)
(* verification of tokens with POST /token/external, SpecDevice the        *)
(* account_tokens adapter of src/unnamed/part_002 lines 79-157, which      *)
(* tells the devices of an account apart, SpecHouse the registries of      *)
(* Housekeeping and a run over them, and SpecProvider the Discord adapter  *)
(* of src/src/auth/DiscordAuthenticationService.ts with its calls side by  *)
(* side.                                                                   *)
(***************************************************************************)
EXTENDS Integers, Sequences, FiniteSets, TLC

VARIABLES
    seconds,        \* the wall clock, whole seconds (UNIX_TIMESTAMP())
    millis,         \* the wall clock, milliseconds within the second
    ticks,          \* how often the clock has advanced
    rand,           \* how many random values randomBytes has produced
    activeStates,   \* AuthenticationManager.activeStates: state_id -> entry
    authTokens,     \* AuthenticationManager.authTokens: hand-off token -> entry
    account_tokens, \* the account_tokens table: a set of rows
    nextRow,        \* the table's AUTO_INCREMENT counter
    calls,          \* the requests suspended at an await
    last,           \* the outcome of the handler segment that ran last
    minted,         \* history: what each random value was issued as, and from what
    lapsed,         \* history: the values whose deadline passed unredeemed
    uses,           \* history: how often each value passed its redemption
    limiter,        \* the TokenBucket at work: its capacity and refill rate
    tokens,         \* TokenBucket.tokens: key -> used counter
    burst,          \* history: per key, the consumption since the clock moved
    streak,         \* history: the run of wrong credentials of one caller
    signed,         \* history: the access tokens signed so far
    accessLog,      \* history: the answers of POST /token, in order
    pending,        \* the DELETEs of revoke and logout the Store has not run yet
    ended,          \* history: the refresh tokens a 200 of revoke or logout covers
    minorTasks,     \* Housekeeping.minorTasks, in the order of registration
    majorTasks,     \* Housekeeping.majorTasks, in the order of registration
    executed,       \* history: the tasks the last run of executeTasks invoked
    accounts,       \* the accounts table: provider user -> provider refresh token
    activeTokens    \* DiscordAuthenticationService.activeTokens: user -> entry

limiterVars == <<limiter, tokens, burst>>

authVars == <<streak>>

houseVars == <<minorTasks, majorTasks, executed>>

serviceVars == <<accounts, activeTokens>>

sessionVars == <<signed, accessLog>>

storeVars == <<pending, ended>>

vars == <<seconds, millis, ticks, rand, activeStates, authTokens,
          account_tokens, nextRow, calls, last, minted, lapsed, uses,
          limiterVars, authVars, houseVars, serviceVars, sessionVars, storeVars>>

---------------------------------------------------------------------------
(* Bounds of the model. *)

MaxCalls == 2
MaxRand == 3
MaxTicks == 1
StartSeconds == 100
MaxPending == 1
MaxEnded == 2
MaxSigned == 1
\* how often one provider refresh token is sent to the provider
MaxSends == 2

Calls == 1..MaxCalls
Values == 1..MaxRand
\* What a request may present: nothing (0), a value issued so far, or a
\* value not issued yet.
Params == {v \in 0..MaxRand : v <= rand + 1}
Accounts == {1, 2}

---------------------------------------------------------------------------
(* The clock.  Date.now() is in milliseconds, UNIX_TIMESTAMP() in seconds. *)

DateNow == seconds * 1000 + millis

UNIX_TIMESTAMP == seconds

Advance(ms) ==
    /\ ticks < MaxTicks
    /\ ticks' = ticks + 1
    /\ seconds' = seconds + (millis + ms) \div 1000
    /\ millis' = (millis + ms) % 1000

---------------------------------------------------------------------------
(* Program constants. *)

StateTtl == 900000

HandoffTtl == 10000

DeviceTtl == 2592000

LengthCap == 40

allowedHosts == {"http://localhost:8080/auth"}

ClientStates == {"", "abc123", "0123456789012345678901234567890123456789"}

Redirects == {"http://localhost:8080/auth", "http://evil.example",
              "http://localhost:8080/auth?next=/lobby/42"}

\* new TokenBucket(capacity, refillRate): the rate, given in tokens per
\* second, is kept as the milliseconds it takes to refill one token.
TokenBucket(capacity, period) == [capacity |-> capacity, period |-> period]

\* new TokenBucket(5, .2), shared by the authentication checks.
authPool == TokenBucket(5, 5000)

\* The buckets the program constructs: (5, .2), (3, .1), (5, 1), (10, 1).
Limiters == {authPool, TokenBucket(3, 10000), TokenBucket(5, 1000),
             TokenBucket(10, 1000)}

\* Caller addresses, the keys of the buckets.
Addresses == {"10.0.0.1", "10.0.0.2"}

---------------------------------------------------------------------------
(* JavaScript Map operations. *)

MapHas(map, key) == key \in DOMAIN map

MapSet(map, key, value) ==
    [k \in DOMAIN map \cup {key} |-> IF k = key THEN value ELSE map[k]]

MapDelete(map, key) == [k \in DOMAIN map \ {key} |-> map[k]]

EmptyMap == [k \in {} |-> 0]

---------------------------------------------------------------------------
(* Requests.  A slot of calls is idle or suspended at an await (pc names  *)
(* it) with the handler's local variables.  last describes the segment     *)
(* that ran last, at the present instant: the handler, the value presented,*)
(* whether it was the call itself or a resumption, whether the presented   *)
(* value passed its redemption check, and the response (status 0: none     *)
(* yet, the call is suspended).                                            *)

\* No access token.
NoAccess == [key |-> "", type |-> "", id |-> <<>>, service |-> "",
             user_id |-> "", username |-> "", avatar_url |-> "",
             iat |-> 0, exp |-> 0]

NoBody == [text |-> "", token |-> 0, target |-> "", state |-> "",
           retryAfter |-> 0, access_token |-> NoAccess, expires_in |-> 0]

Text(text) == [NoBody EXCEPT !.text = text]

NoLocal == [id |-> 0, token |-> 0, redirect |-> "", clientState |-> "",
            device |-> 0, access |-> NoAccess, after |-> FALSE]

Idle == [pc |-> "idle", op |-> "none", arg |-> 0, local |-> NoLocal]

Suspended(pc, op, arg, local) == [pc |-> pc, op |-> op, arg |-> arg, local |-> local]

\* The Authorization header of a request: startsWith("Bearer ") is the
\* scheme, substring(7) the credentials.
NoHeader == [scheme |-> "", credentials |-> ""]

Bearer(credentials) == [scheme |-> "Bearer", credentials |-> credentials]

\* No user: what an authentication check that found none hands on.
NoUser == [id |-> 0, service |-> "", user_id |-> "", username |-> "",
           avatar_url |-> ""]

\* The query parameters of a request that carries none.
NoQuery == [state |-> "", redirect |-> ""]

NoSegment == [op |-> "none", arg |-> 0, ip |-> "", force |-> FALSE,
              auth |-> NoHeader, query |-> NoQuery, user |-> NoUser, phase |-> "none", pc |-> "",
              passed |-> FALSE, status |-> 0, body |-> NoBody]

\* The call segment of handler op answered at once.
Answered(op, arg, status, body) ==
    [op |-> op, arg |-> arg, ip |-> "", force |-> FALSE, auth |-> NoHeader,
     query |-> NoQuery, user |-> NoUser, phase |-> "call", pc |-> "",
     passed |-> FALSE, status |-> status, body |-> body]

\* The call segment of handler op passed its checks and reached an await.
Passed(op, arg) ==
    [op |-> op, arg |-> arg, ip |-> "", force |-> FALSE, auth |-> NoHeader,
     query |-> NoQuery, user |-> NoUser, phase |-> "call", pc |-> "",
     passed |-> TRUE, status |-> 0, body |-> NoBody]

\* The call segment of handler op reached an await before any check.
Awaiting(op, arg) ==
    [op |-> op, arg |-> arg, ip |-> "", force |-> FALSE, auth |-> NoHeader,
     query |-> NoQuery, user |-> NoUser, phase |-> "call", pc |-> "", passed |-> FALSE, status |-> 0,
     body |-> NoBody]

\* A suspended call resumed and answered, or (status 0) reached its next
\* await; pc is the await it resumed from.
Resumed(call, status, body) ==
    [op |-> call.op, arg |-> call.arg, ip |-> "", force |-> FALSE,
     auth |-> NoHeader, query |-> NoQuery, user |-> NoUser, phase |-> "resume", pc |-> call.pc,
     passed |-> TRUE, status |-> status, body |-> body]

\* The segment of a request with the query parameters state and redirect.
Asked(segment, state, redirect) ==
    [segment EXCEPT !.query = [state |-> state, redirect |-> redirect]]

\* No segment is running: the event loop may start the next one.
Ready == last = NoSegment

\* A new request takes the first free slot.
FreeSlot(c) ==
    /\ calls[c].pc = "idle"
    /\ \A d \in Calls : d < c => calls[d].pc # "idle"

Used(value) == IF value \in DOMAIN uses THEN uses[value] ELSE 0

CountUse(value) == MapSet(uses, value, Used(value) + 1)

---------------------------------------------------------------------------
(* AuthenticationManager: the login handshake. *)

\* Mutant of loginRejected: the allow-list is not consulted.
loginRejectedLengthOnly(clientState, redirect) ==
    \/ Len(clientState) >= LengthCap
    \/ Len(redirect) >= LengthCap

\* Mutant of loginRejected: any redirect that is short and not empty passes.
loginRejectedEmptyOnly(clientState, redirect) ==
    \/ Len(clientState) >= LengthCap
    \/ Len(redirect) >= LengthCap
    \/ redirect = ""

\* handleLogin's parameter check.
loginRejected(clientState, redirect) ==
    \/ Len(clientState) >= LengthCap
    \/ Len(redirect) >= LengthCap
    \/ redirect \notin allowedHosts

\* service.getLoginRedirect(state): the provider's URL carrying the state.
getLoginRedirect(state) ==
    [NoBody EXCEPT !.target = "https://discord.com/api/oauth2/authorize",
                   !.token = state]

\* GET /login/{provider}: synchronous, no await.
handleLogin(clientState, redirect) ==
    /\ Ready
    /\ IF loginRejected(clientState, redirect)
       THEN /\ last' = Asked(Answered("handleLogin", 0, 400, Text("Bad Request")),
                             clientState, redirect)
            /\ UNCHANGED <<rand, activeStates, minted>>
       ELSE /\ rand < MaxRand
            /\ LET state == rand + 1
                   entry == [timeout |-> DateNow + StateTtl,
                             clientState |-> clientState,
                             redirect |-> redirect]
               IN /\ rand' = state
                  /\ activeStates' = MapSet(activeStates, state, entry)
                  /\ minted' = MapSet(minted, state,
                                   [kind |-> "state", account |-> 0, from |-> 0])
                  /\ last' = Asked(Answered("handleLogin", 0, 302,
                                            getLoginRedirect(state)),
                                   clientState, redirect)
    /\ UNCHANGED <<limiterVars, authVars, houseVars, serviceVars, sessionVars, storeVars>>
    /\ UNCHANGED <<seconds, millis, ticks, authTokens, account_tokens,
                   nextRow, calls, lapsed, uses>>

\* Mutant of stateExpired: a state is still taken one millisecond past its
\* deadline.
stateExpiredLate(expiration) == expiration.timeout + 1 < DateNow

\* Mutant of stateExpired: the deadline is never looked at.
stateExpiredNever(expiration) == FALSE

\* The deadline test of handleResponse.
stateExpired(expiration) == expiration.timeout < DateNow

\* Mutant of consumeState: the matched state stays in the table.
consumeStateKept(state) == activeStates

\* activeStates.delete(state) in handleResponse.
consumeState(state) == MapDelete(activeStates, state)

\* GET /auth/{provider}, up to the await of the provider exchange.
handleResponse(c, state) ==
    /\ Ready
    /\ FreeSlot(c)
    /\ IF state = 0 \/ ~MapHas(activeStates, state)
       THEN /\ last' = Answered("handleResponse", state, 400, Text("Bad Request"))
            /\ UNCHANGED <<activeStates, uses, calls>>
       ELSE LET expiration == activeStates[state] IN
            IF stateExpired(expiration)
            THEN /\ last' = Answered("handleResponse", state, 400, Text("Bad Request"))
                 /\ UNCHANGED <<activeStates, uses, calls>>
            ELSE /\ activeStates' = consumeState(state)
                 /\ uses' = CountUse(state)
                 /\ last' = Passed("handleResponse", state)
                 /\ calls' = [calls EXCEPT ![c] =
                                 Suspended("exchange", "handleResponse", state,
                                           [NoLocal EXCEPT
                                              !.redirect = expiration.redirect,
                                              !.clientState = expiration.clientState])]
    /\ UNCHANGED <<limiterVars, authVars, houseVars, serviceVars, sessionVars, storeVars>>
    /\ UNCHANGED <<seconds, millis, ticks, rand, authTokens, account_tokens,
                   nextRow, minted, lapsed>>

\* Mutant of authTokenEntry: the entry is made out to the first account.
authTokenEntryOfFirst(id) == [id |-> 1, expiresAt |-> DateNow + HandoffTtl]

\* {id, expiresAt: Date.now() + 10 * 1000}
authTokenEntry(id) == [id |-> id, expiresAt |-> DateNow + HandoffTtl]

\* service.handleResponse resolved with the account id: the .then callback.
exchangeResolved(c, id) ==
    /\ Ready
    /\ calls[c].pc = "exchange"
    /\ rand < MaxRand
    /\ LET authToken == rand + 1
           entry == authTokenEntry(id)
       IN /\ rand' = authToken
          /\ authTokens' = MapSet(authTokens, authToken, entry)
          /\ minted' = MapSet(minted, authToken,
                              [kind |-> "handoff", account |-> id,
                               from |-> calls[c].arg])
          /\ last' = Resumed(calls[c], 302,
                             [NoBody EXCEPT
                                !.token = authToken,
                                !.target = calls[c].local.redirect,
                                !.state = calls[c].local.clientState])
    /\ calls' = [calls EXCEPT ![c] = Idle]
    /\ UNCHANGED <<limiterVars, authVars, houseVars, serviceVars, sessionVars, storeVars>>
    /\ UNCHANGED <<seconds, millis, ticks, activeStates, account_tokens,
                   nextRow, lapsed, uses>>

\* The messages of the AuthenticationExceptions that
\* DiscordAuthenticationService.handleResponse throws.
ProviderErrors == {"Missing code in response", "Failed to get token",
                   "Failed to parse token", "Failed to get user information",
                   "Failed to store token"}

\* Mutant of exchangeCaught: the failure is sent to the client's redirect
\* target like a success.
exchangeCaughtRedirected(call, message) ==
    Resumed(call, 302, [Text(message) EXCEPT !.target = call.local.redirect])

\* new Response(e.message, {status: 422}) of the .catch callback.
exchangeCaught(call, message) == Resumed(call, 422, Text(message))

\* service.handleResponse threw an AuthenticationException: the .catch callback.
exchangeRejected(c, message) ==
    /\ Ready
    /\ calls[c].pc = "exchange"
    /\ last' = exchangeCaught(calls[c], message)
    /\ calls' = [calls EXCEPT ![c] = Idle]
    /\ UNCHANGED <<limiterVars, authVars, houseVars, serviceVars, sessionVars, storeVars>>
    /\ UNCHANGED <<seconds, millis, ticks, rand, activeStates, authTokens,
                   account_tokens, nextRow, minted, lapsed, uses>>

\* Mutant of handoffExpired: the deadline is never looked at.
handoffExpiredNever(authToken) == FALSE

\* Mutant of handoffExpired: the token is honoured one millisecond longer.
handoffExpiredLate(authToken) == authToken.expiresAt + 1 < DateNow

\* The deadline test of handleInitialToken.
handoffExpired(authToken) == authToken.expiresAt < DateNow

\* Mutant of consumeAuthToken: the redeemed token stays in the table.
consumeAuthTokenKept(token) == authTokens

\* authTokens.delete(token) in handleInitialToken.
consumeAuthToken(token) == MapDelete(authTokens, token)

\* POST /auth, up to the await of registerDevice's INSERT.  registerDevice
\* draws the refresh token before it awaits the Store.
handleInitialToken(c, token) ==
    /\ Ready
    /\ FreeSlot(c)
    /\ IF token = 0
       THEN /\ last' = Answered("handleInitialToken", token, 400, Text("Bad Request"))
            /\ UNCHANGED <<rand, authTokens, uses, calls>>
       ELSE IF ~MapHas(authTokens, token)
       THEN /\ last' = Answered("handleInitialToken", token, 401, Text("Invalid token"))
            /\ UNCHANGED <<rand, authTokens, uses, calls>>
       ELSE LET authToken == authTokens[token] IN
            IF handoffExpired(authToken)
            THEN /\ last' = Answered("handleInitialToken", token, 401,
                                     Text("Token expired, please try again"))
                 /\ UNCHANGED <<rand, authTokens, uses, calls>>
            ELSE /\ rand < MaxRand
                 /\ authTokens' = consumeAuthToken(token)
                 /\ uses' = CountUse(token)
                 /\ rand' = rand + 1
                 /\ last' = Passed("handleInitialToken", token)
                 /\ calls' = [calls EXCEPT ![c] =
                                 Suspended("insert", "handleInitialToken", token,
                                           [NoLocal EXCEPT !.id = authToken.id,
                                                           !.token = rand + 1])]
    /\ UNCHANGED <<limiterVars, authVars, houseVars, serviceVars, sessionVars, storeVars>>
    /\ UNCHANGED <<seconds, millis, ticks, activeStates, account_tokens,
                   nextRow, minted, lapsed>>

\* What registerDevice gives back once run() has settled: run's failure is
\* caught and dropped, the token is returned either way.
registerDeviceResult(token, inserted) == token

\* The INSERT of registerDevice settles (inserted: the Store kept the row)
\* and handleInitialToken resumes and answers.
registerDevice(c, inserted) ==
    /\ Ready
    /\ calls[c].pc = "insert"
    /\ LET token == calls[c].local.token
           row == [id |-> nextRow, user |-> calls[c].local.id, token |-> token,
                   expires_at |-> UNIX_TIMESTAMP + DeviceTtl]
           refreshToken == registerDeviceResult(token, inserted)
       IN /\ IF inserted
             THEN /\ account_tokens' = account_tokens \cup {row}
                  /\ nextRow' = nextRow + 1
                  /\ minted' = MapSet(minted, token,
                                      [kind |-> "refresh", account |-> row.user,
                                       from |-> calls[c].arg])
             ELSE UNCHANGED <<account_tokens, nextRow, minted>>
          /\ last' = IF refreshToken = 0
                     THEN Resumed(calls[c], 500,
                                  Text("Failed to generate refresh token"))
                     ELSE Resumed(calls[c], 200,
                                  [NoBody EXCEPT !.token = refreshToken])
    /\ calls' = [calls EXCEPT ![c] = Idle]
    /\ UNCHANGED <<limiterVars, authVars, houseVars, serviceVars, sessionVars, storeVars>>
    /\ UNCHANGED <<seconds, millis, ticks, rand, activeStates, authTokens,
                   lapsed, uses>>

\* Mutant of cleanUpTokens: an entry is removed at its deadline already.
cleanUpTokensAtDeadline ==
    /\ Ready
    /\ authTokens' = [k \in {t \in DOMAIN authTokens :
                                ~(authTokens[t].expiresAt <= DateNow)}
                        |-> authTokens[k]]
    /\ activeStates' = [k \in {s \in DOMAIN activeStates :
                                  ~(activeStates[s].timeout <= DateNow)}
                          |-> activeStates[k]]
    /\ UNCHANGED <<limiterVars, authVars, houseVars, serviceVars, sessionVars, storeVars>>
    /\ UNCHANGED <<seconds, millis, ticks, rand, account_tokens, nextRow,
                   calls, last, minted, lapsed, uses>>

\* A sweep that forgets the table of CSRF states.
cleanUpTokensOfHandoffOnly ==
    /\ Ready
    /\ authTokens' = [k \in {t \in DOMAIN authTokens :
                                ~(authTokens[t].expiresAt < DateNow)}
                        |-> authTokens[k]]
    /\ UNCHANGED activeStates
    /\ UNCHANGED <<limiterVars, authVars, houseVars, serviceVars, sessionVars, storeVars>>
    /\ UNCHANGED <<seconds, millis, ticks, rand, account_tokens, nextRow,
                   calls, last, minted, lapsed, uses>>

\* Housekeeping's minor task: the sweep of both in-memory tables.
cleanUpTokens ==
    /\ Ready
    /\ authTokens' = [k \in {t \in DOMAIN authTokens :
                                ~(authTokens[t].expiresAt < DateNow)}
                        |-> authTokens[k]]
    /\ activeStates' = [k \in {s \in DOMAIN activeStates :
                                  ~(activeStates[s].timeout < DateNow)}
                          |-> activeStates[k]]
    /\ UNCHANGED <<limiterVars, authVars, houseVars, serviceVars, sessionVars, storeVars>>
    /\ UNCHANGED <<seconds, millis, ticks, rand, account_tokens, nextRow,
                   calls, last, minted, lapsed, uses>>

\* The entries still in a table whose deadline lies before the instant t.
Lapsing(t) ==
    {s \in DOMAIN activeStates : activeStates[s].timeout < t}
        \cup {a \in DOMAIN authTokens : authTokens[a].expiresAt < t}

\* Time passes: up to a deadline of the handshake, or just past it.
LoginSteps == {HandoffTtl, HandoffTtl + 1, StateTtl, StateTtl + 1}

Tick(ms) ==
    /\ Ready
    /\ Advance(ms)
    /\ lapsed' = lapsed \cup Lapsing(seconds' * 1000 + millis')
    /\ UNCHANGED <<limiterVars, authVars, houseVars, serviceVars, sessionVars, storeVars>>
    /\ UNCHANGED <<rand, activeStates, authTokens, account_tokens, nextRow,
                   calls, last, minted, uses>>

\* The segment that ran is over: its response goes out, the next one may run.
Return ==
    /\ last # NoSegment
    /\ last' = NoSegment
    /\ UNCHANGED <<limiterVars, authVars, houseVars, serviceVars, sessionVars, storeVars>>
    /\ UNCHANGED <<seconds, millis, ticks, rand, activeStates, authTokens,
                   account_tokens, nextRow, calls, minted, lapsed, uses>>

\* No key has consumed anything since the clock last moved.
\* No caller is in a run of wrong credentials.
NoStreak == [ip |-> "", kind |-> "none", admitted |-> 0, start |-> 0,
             before |-> 0]

NoBurst == [k \in Addresses |-> [kind |-> "full", granted |-> 0, at |-> 0]]

Init ==
    /\ limiter = authPool
    /\ tokens = EmptyMap
    /\ burst = NoBurst
    /\ streak = NoStreak
    /\ minorTasks = <<>>
    /\ majorTasks = <<>>
    /\ executed = <<>>
    /\ accounts = EmptyMap
    /\ activeTokens = EmptyMap
    /\ accessLog = <<>>
    /\ signed = {}
    /\ pending = {}
    /\ ended = {}
    /\ seconds = StartSeconds
    /\ millis = 0
    /\ ticks = 0
    /\ rand = 0
    /\ activeStates = EmptyMap
    /\ authTokens = EmptyMap
    /\ account_tokens = {}
    /\ nextRow = 1
    /\ calls = [c \in Calls |-> Idle]
    /\ last = NoSegment
    /\ minted = EmptyMap
    /\ lapsed = {}
    /\ uses = EmptyMap

Next ==
    \/ \E cs \in ClientStates, rd \in Redirects : handleLogin(cs, rd)
    \/ \E c \in Calls, state \in Params : handleResponse(c, state)
    \/ \E c \in Calls, id \in Accounts : exchangeResolved(c, id)
    \/ \E c \in Calls, message \in ProviderErrors : exchangeRejected(c, message)
    \/ \E c \in Calls, token \in Params : handleInitialToken(c, token)
    \/ \E c \in Calls, inserted \in BOOLEAN : registerDevice(c, inserted)
    \/ cleanUpTokens
    \/ \E ms \in LoginSteps : Tick(ms)
    \/ Return

Spec == Init /\ [][Next]_vars

\* The handshake of one browser at a time, with the sweep and the clock.
NextSweep ==
    \/ handleLogin("abc123", "http://localhost:8080/auth")
    \/ \E state \in Params : handleResponse(1, state)
    \/ \E id \in Accounts : exchangeResolved(1, id)
    \/ exchangeRejected(1, "Failed to get token")
    \/ \E token \in Params : handleInitialToken(1, token)
    \/ \E inserted \in BOOLEAN : registerDevice(1, inserted)
    \/ cleanUpTokens
    \/ \E ms \in LoginSteps : Tick(ms)
    \/ Return

\* The timers of Housekeeping never stop and the clock never stands still:
\* the ten-minute sweep and the passing of time are taken again and again,
\* and a segment that has run returns.
SpecSweep ==
    /\ Init /\ [][NextSweep]_vars
    /\ WF_vars(Return)
    /\ SF_vars(cleanUpTokens)
    /\ SF_vars(\E ms \in LoginSteps : Tick(ms))

---------------------------------------------------------------------------
(* TokenBucket.  The used counters and the running total are kept in units *)
(* of one millisecond of refill, limiter.period of them to a token, so     *)
(* that Date.now() * refillRate is the clock itself and every comparison   *)
(* of the code is exact; the rounding of the doubles is not modelled.      *)

Max(a, b) == IF a >= b THEN a ELSE b

Units(n) == n * limiter.period

\* this.tokens.get(key) || 0
tokensUsed(key) == IF MapHas(tokens, key) THEN tokens[key] ELSE 0

\* Date.now() * this.refillRate
totalTokens == DateNow

\* Mutant of charged: the floor lies one token too high.
chargedFloorHigh(used, n) ==
    Max(used + Units(n),
        totalTokens - Units(limiter.capacity) + Units(n) + Units(1))

\* Mutant of charged: the floor leaves the tokens of this call out.
chargedFloorShort(used, n) ==
    Max(used + Units(n), totalTokens - Units(limiter.capacity))

\* Mutant of charged: the floor that caps the refill at the capacity is gone.
chargedUncapped(used, n) == used + Units(n)

\* The counter consume stores: the refill is capped at the capacity.
charged(used, n) ==
    Max(used + Units(n), totalTokens - Units(limiter.capacity) + Units(n))

\* Mutant of consume: a refused call is charged all the same.
consumeChargingRefusal(key, n) ==
    [ok |-> tokensUsed(key) + Units(n) <= totalTokens,
     tokens |-> MapSet(tokens, key, charged(tokensUsed(key), n))]

\* consume(key, n): its return value and the map it leaves.
consume(key, n) ==
    IF tokensUsed(key) + Units(n) > totalTokens
    THEN [ok |-> FALSE, tokens |-> tokens]
    ELSE [ok |-> TRUE,
          tokens |-> MapSet(tokens, key, charged(tokensUsed(key), n))]

canConsume(key, n) == tokensUsed(key) + Units(n) <= totalTokens

\* Mutant of timeUntilRefill: the tokens asked for are left out.
timeUntilRefillOfNone(key, n) == Max(0, tokensUsed(key) - DateNow)

\* timeUntilRefill(key, n), in milliseconds.
timeUntilRefill(key, n) == Max(0, tokensUsed(key) + Units(n) - DateNow)

\* The outcome of a call of a TokenBucket method that returns a boolean.
Returned(op, key, n, result) ==
    [op |-> op, arg |-> n, ip |-> key, force |-> FALSE, auth |-> NoHeader,
     query |-> NoQuery, user |-> NoUser, phase |-> "call", pc |-> "",
     passed |-> result, status |-> 0, body |-> NoBody]

\* What a call of consume adds to the history of its key.
Granted(key, n, ok) ==
    IF ~ok THEN burst
    ELSE IF n = 1
    THEN [burst EXCEPT ![key].granted = @ + 1]
    ELSE [burst EXCEPT ![key].kind = "other"]

Sizes == {1, 2}

\* A caller of the bucket runs consume(key, n).
callConsume(key, n) ==
    /\ Ready
    /\ LET result == consume(key, n)
       IN /\ tokens' = result.tokens
          /\ burst' = Granted(key, n, result.ok)
          /\ last' = Returned("consume", key, n, result.ok)
    /\ UNCHANGED <<seconds, millis, ticks, rand, activeStates, authTokens,
                   account_tokens, nextRow, calls, minted, lapsed, uses,
                   limiter, authVars, houseVars, serviceVars, sessionVars, storeVars>>

\* A caller of the bucket runs canConsume(key, n).
callCanConsume(key, n) ==
    /\ Ready
    /\ last' = Returned("canConsume", key, n, canConsume(key, n))
    /\ UNCHANGED <<seconds, millis, ticks, rand, activeStates, authTokens,
                   account_tokens, nextRow, calls, minted, lapsed, uses,
                   limiterVars, authVars, houseVars, serviceVars, sessionVars, storeVars>>

\* A caller of the bucket runs timeUntilRefill(key, n); the wait it returns,
\* in milliseconds, stands in retryAfter.
callTimeUntilRefill(key, n) ==
    /\ Ready
    /\ last' = [Returned("timeUntilRefill", key, n,
                         timeUntilRefill(key, n) = 0)
                  EXCEPT !.body = [NoBody EXCEPT
                                     !.retryAfter = timeUntilRefill(key, n)]]
    /\ UNCHANGED <<seconds, millis, ticks, rand, activeStates, authTokens,
                   account_tokens, nextRow, calls, minted, lapsed, uses,
                   limiterVars, authVars, houseVars, serviceVars, sessionVars, storeVars>>

\* Mutant of cleanup: the capacity is left out of the threshold.
cleanupEager ==
    /\ Ready
    /\ tokens' = [k \in {key \in DOMAIN tokens : ~(tokens[key] < totalTokens)}
                    |-> tokens[k]]
    /\ UNCHANGED <<seconds, millis, ticks, rand, activeStates, authTokens,
                   account_tokens, nextRow, calls, last, minted, lapsed, uses,
                   limiter, burst, authVars, houseVars, serviceVars, sessionVars, storeVars>>

\* Housekeeping's minor task of the bucket.
cleanup ==
    /\ Ready
    /\ LET maxTokens == totalTokens - Units(limiter.capacity)
       IN tokens' = [k \in {key \in DOMAIN tokens : ~(tokens[key] < maxTokens)}
                       |-> tokens[k]]
    /\ UNCHANGED <<seconds, millis, ticks, rand, activeStates, authTokens,
                   account_tokens, nextRow, calls, last, minted, lapsed, uses,
                   limiter, burst, authVars, houseVars, serviceVars, sessionVars, storeVars>>

\* The history of a key once the clock has moved to the instant now: a key
\* that C grants have just taken from full to empty is drained, until it is
\* consumed from or full again; any other key is full or not.
Settled(key, now) ==
    LET b == burst[key]
        refilled == tokensUsed(key) + Units(limiter.capacity) <= now
    IN IF b.kind = "full" /\ b.granted = limiter.capacity
       THEN [kind |-> "drained", granted |-> 0, at |-> DateNow]
       ELSE IF b.kind = "drained" /\ b.granted = 0 /\ ~refilled
       THEN b
       ELSE [kind |-> IF refilled THEN "full" ELSE "other",
             granted |-> 0, at |-> 0]

\* Time passes: a millisecond, up to the refill of one token, or a whole
\* refill of the bucket.
BucketSteps == {1, limiter.period - 1, limiter.period,
                Units(limiter.capacity)}

Elapse(ms) ==
    /\ Ready
    /\ Advance(ms)
    /\ burst' = [k \in Addresses |-> Settled(k, seconds' * 1000 + millis')]
    /\ streak' = NoStreak
    /\ UNCHANGED <<houseVars, serviceVars>>
    /\ UNCHANGED <<rand, activeStates, authTokens, account_tokens, nextRow,
                   calls, last, minted, lapsed, uses, limiter, tokens,
                   sessionVars, storeVars>>

\* Any of the buckets the program constructs, no key used yet.
InitBucket ==
    /\ limiter \in Limiters
    /\ tokens = EmptyMap
    /\ burst = NoBurst
    /\ streak = NoStreak
    /\ minorTasks = <<>>
    /\ majorTasks = <<>>
    /\ executed = <<>>
    /\ accounts = EmptyMap
    /\ activeTokens = EmptyMap
    /\ accessLog = <<>>
    /\ signed = {}
    /\ pending = {}
    /\ ended = {}
    /\ seconds = StartSeconds
    /\ millis = 0
    /\ ticks = 0
    /\ rand = 0
    /\ activeStates = EmptyMap
    /\ authTokens = EmptyMap
    /\ account_tokens = {}
    /\ nextRow = 1
    /\ calls = [c \in Calls |-> Idle]
    /\ last = NoSegment
    /\ minted = EmptyMap
    /\ lapsed = {}
    /\ uses = EmptyMap

NextBucket ==
    \/ \E key \in Addresses, n \in Sizes : callConsume(key, n)
    \/ \E key \in Addresses, n \in Sizes : callCanConsume(key, n)
    \/ \E key \in Addresses, n \in Sizes : callTimeUntilRefill(key, n)
    \/ cleanup
    \/ \E ms \in BucketSteps : Elapse(ms)
    \/ Return

SpecBucket == InitBucket /\ [][NextBucket]_vars

---------------------------------------------------------------------------
(* One bucket over an interval of time.  The interval begins in a state    *)
(* the bucket can have come to: the key has no entry, or an entry that was *)
(* written some time ago.  uses counts the tokens that consume has granted *)
(* to the key since the interval began.  One key is followed: the keys of  *)
(* a bucket do not interact.                                               *)

\* How long ago the entry of a key reached the clock: just now, one token
\* of refill ago, a whole refill ago, or longer.
Idled == {0, limiter.period, Units(limiter.capacity),
          Units(limiter.capacity) + limiter.period,
          3 * Units(limiter.capacity)}

\* consume(key, n) is called within the interval.
consumeWithin(key, n) ==
    /\ Ready
    /\ LET result == consume(key, n)
       IN /\ tokens' = result.tokens
          /\ burst' = Granted(key, n, result.ok)
          /\ uses' = IF result.ok
                     THEN MapSet(uses, key, Used(key) + n)
                     ELSE uses
          /\ last' = Returned("consume", key, n, result.ok)
    /\ UNCHANGED <<seconds, millis, ticks, rand, activeStates, authTokens,
                   account_tokens, nextRow, calls, minted, lapsed,
                   limiter, authVars, houseVars, serviceVars, sessionVars, storeVars>>

\* rateLimit(req, bucket, tokenCount) of the server, called by a route
\* within the interval: consume, and 429 with Retry-After when it is
\* refused.
rateLimit(ip, tokenCount) ==
    /\ Ready
    /\ LET result == consume(ip, tokenCount)
       IN /\ tokens' = result.tokens
          /\ burst' = Granted(ip, tokenCount, result.ok)
          /\ uses' = IF result.ok
                     THEN MapSet(uses, ip, Used(ip) + tokenCount)
                     ELSE uses
          /\ last' = [Returned("rateLimit", ip, tokenCount, result.ok)
                        EXCEPT !.status = IF result.ok THEN 0 ELSE 429,
                               !.body =
                                  IF result.ok
                                  THEN NoBody
                                  ELSE [NoBody EXCEPT
                                          !.text = "Too Many Requests",
                                          !.retryAfter =
                                             (timeUntilRefill(ip, tokenCount)
                                                 + 999) \div 1000]]
    /\ UNCHANGED <<seconds, millis, ticks, rand, activeStates, authTokens,
                   account_tokens, nextRow, calls, minted, lapsed,
                   limiter, authVars, houseVars, serviceVars, sessionVars, storeVars>>

\* Any of the buckets the program constructs, some time after its start.
InitWindow ==
    /\ limiter \in Limiters
    /\ seconds = StartSeconds
    /\ millis = 0
    /\ tokens \in {EmptyMap}
                  \cup [{"10.0.0.1"} -> {DateNow - ago : ago \in Idled}]
    /\ burst = NoBurst
    /\ streak = NoStreak
    /\ minorTasks = <<>>
    /\ majorTasks = <<>>
    /\ executed = <<>>
    /\ accounts = EmptyMap
    /\ activeTokens = EmptyMap
    /\ accessLog = <<>>
    /\ signed = {}
    /\ pending = {}
    /\ ended = {}
    /\ ticks = 0
    /\ rand = 0
    /\ activeStates = EmptyMap
    /\ authTokens = EmptyMap
    /\ account_tokens = {}
    /\ nextRow = 1
    /\ calls = [c \in Calls |-> Idle]
    /\ last = NoSegment
    /\ minted = EmptyMap
    /\ lapsed = {}
    /\ uses = EmptyMap

NextWindow ==
    \/ \E n \in Sizes : consumeWithin("10.0.0.1", n)
    \/ \E n \in Sizes : rateLimit("10.0.0.1", n)
    \/ cleanup
    \/ \E ms \in BucketSteps : Elapse(ms)
    \/ Return

SpecWindow == InitWindow /\ [][NextWindow]_vars

\* The bucket called with requests of any size, a size above the capacity
\* among them (the comment of consume asks for less).
NextOversize ==
    \/ \E n \in 1..(limiter.capacity + 1) : callConsume("10.0.0.1", n)
    \/ \E n \in {0, 1} : callCanConsume("10.0.0.1", n)
    \/ cleanup
    \/ \E ms \in BucketSteps : Elapse(ms)
    \/ Return

SpecOversize == InitWindow /\ [][NextOversize]_vars

---------------------------------------------------------------------------
(* Access tokens.  A signed token is the record of its claims and of the   *)
(* key that signed it; iat and exp are in whole seconds.                   *)

\* expiresIn: 60 * 15
AccessTtl == 900

\* Mutant of prettifyId: the id goes into the token as it is.
prettifyIdPlain(id) == <<"text", id>>

\* sqids.encode([id]) and sqids.decode(id): an id and its prettified form
\* are different values, and only a prettified id decodes.
prettifyId(id) == <<"sqid", id>>

unprettifyId(id) == IF Len(id) = 2 /\ id[1] = "sqid" THEN id[2] ELSE 0

\* What the provider's getUser returns for the account's user.
ServiceUser(account) ==
    [user_id |-> IF account = 1 THEN "81001" ELSE "81002",
     username |-> IF account = 1 THEN "ada" ELSE "bob",
     avatar_url |-> "https://cdn.discordapp.com/avatars"]

buildAPIUser(user, id, service) ==
    [id |-> prettifyId(id), service |-> service, user_id |-> user.user_id,
     username |-> user.username, avatar_url |-> user.avatar_url]

\* sign({type: "user", ...user}, privateKey, {expiresIn: 60 * 15})
generateToken(user) ==
    [key |-> "private.key", type |-> "user", id |-> user.id,
     service |-> user.service, user_id |-> user.user_id,
     username |-> user.username, avatar_url |-> user.avatar_url,
     iat |-> UNIX_TIMESTAMP, exp |-> UNIX_TIMESTAMP + AccessTtl]

\* expiresIn: 60
ExternalTtl == 60

\* Mutant of generateExternalToken: the lifetime of a user token.
generateExternalTokenLong(user, host) ==
    [key |-> "private.key", type |-> "external", id |-> user.id,
     service |-> user.service, user_id |-> user.user_id,
     username |-> user.username, avatar_url |-> user.avatar_url,
     iat |-> UNIX_TIMESTAMP, exp |-> UNIX_TIMESTAMP + AccessTtl,
     aud |-> host]

\* sign({type: "external", ...user}, privateKey,
\*      {expiresIn: 60, audience: host})
generateExternalToken(user, host) ==
    [key |-> "private.key", type |-> "external", id |-> user.id,
     service |-> user.service, user_id |-> user.user_id,
     username |-> user.username, avatar_url |-> user.avatar_url,
     iat |-> UNIX_TIMESTAMP, exp |-> UNIX_TIMESTAMP + ExternalTtl,
     aud |-> host]

\* A claim of a token that is not a string stands as this value; an id that
\* is not a string is tagged "number".
NotAString == "<number>"

\* typeof v === "string" for the claims of a token.
IsString(v) == v # NotAString

IsStringId(id) == Len(id) # 2 \/ id[1] # "number"

\* reject()
Rejected == [ok |-> FALSE, id |-> 0, user |-> NoUser]

\* Mutant of verifyToken: the type of the token is not looked at.
verifyTokenAnyType(token) ==
    IF token.key # "private.key" \/ UNIX_TIMESTAMP >= token.exp
    THEN Rejected
    ELSE IF \/ ~IsStringId(token.id) \/ ~IsString(token.service)
            \/ ~IsString(token.user_id) \/ ~IsString(token.username)
            \/ ~IsString(token.avatar_url)
    THEN Rejected
    ELSE LET id == unprettifyId(token.id)
         IN IF id = 0
            THEN Rejected
            ELSE [ok |-> TRUE, id |-> id,
                  user |-> [id |-> id, service |-> token.service,
                            user_id |-> token.user_id,
                            username |-> token.username,
                            avatar_url |-> token.avatar_url]]

\* Mutant of verifyToken: a token is accepted only while its account has a
\* Device.
verifyTokenOfDevice(token) ==
    IF \/ token.key # "private.key" \/ UNIX_TIMESTAMP >= token.exp
       \/ \A row \in account_tokens : row.user # unprettifyId(token.id)
    THEN Rejected
    ELSE IF \/ ~IsString(token.type) \/ token.type # "user"
            \/ ~IsStringId(token.id) \/ ~IsString(token.service)
            \/ ~IsString(token.user_id) \/ ~IsString(token.username)
            \/ ~IsString(token.avatar_url)
    THEN Rejected
    ELSE LET id == unprettifyId(token.id)
         IN IF id = 0
            THEN Rejected
            ELSE [ok |-> TRUE, id |-> id,
                  user |-> [id |-> id, service |-> token.service,
                            user_id |-> token.user_id,
                            username |-> token.username,
                            avatar_url |-> token.avatar_url]]

\* verifyToken: the signature, the expiry (jsonwebtoken rejects a token once
\* the clock has reached exp), the type, the types of the claims and the id.
\* ok is FALSE for reject().
verifyToken(token) ==
    IF token.key # "private.key" \/ UNIX_TIMESTAMP >= token.exp
    THEN Rejected
    ELSE IF \/ ~IsString(token.type) \/ token.type # "user"
            \/ ~IsStringId(token.id) \/ ~IsString(token.service)
            \/ ~IsString(token.user_id) \/ ~IsString(token.username)
            \/ ~IsString(token.avatar_url)
    THEN Rejected
    ELSE LET id == unprettifyId(token.id)
         IN IF id = 0
            THEN Rejected
            ELSE [ok |-> TRUE, id |-> id,
                  user |-> [id |-> id, service |-> token.service,
                            user_id |-> token.user_id,
                            username |-> token.username,
                            avatar_url |-> token.avatar_url]]

---------------------------------------------------------------------------
(* The authentication checks of a route: verifyRequest and authService,    *)
(* both on the shared authPool.  verifyToken settles its promise inside    *)
(* its executor (no input or output happens), so the continuation of       *)
(* verifyRequest runs before any other request is served: each check is    *)
(* one segment.                                                            *)

serviceToken == "s3cr3t"

\* The outcome of an authentication check: an error response, or success
\* (status 0) with the user it found (arg; 0 for none).
Checked(op, force, ip, authorization, user, passed, status, body) ==
    [op |-> op, arg |-> user, ip |-> ip, force |-> force,
     auth |-> authorization, query |-> NoQuery, user |-> NoUser, phase |-> "call", pc |-> "", passed |-> passed,
     status |-> status, body |-> body]

\* The outcome of a check that resolved with a user.
Identified(segment, user) == [segment EXCEPT !.user = user]

\* Mutant of TooManyRequests: the response carries no Retry-After.
TooManyRequestsNoHint(ip) == [NoBody EXCEPT !.text = "Too Many Requests"]

\* new Response("Too Many Requests", {status: 429, headers: {"Retry-After": ...}})
TooManyRequests(ip) ==
    [NoBody EXCEPT !.text = "Too Many Requests",
                   !.retryAfter = (timeUntilRefill(ip, 1) + 999) \div 1000]

\* The tokens the bucket holds for a key, in units.
Available(key) ==
    IF totalTokens - tokensUsed(key) >= Units(limiter.capacity)
    THEN Units(limiter.capacity)
    ELSE totalTokens - tokensUsed(key)

\* The history of wrong credentials: the caller's run goes on, or begins.
Extended(ip, kind) ==
    IF streak.ip = ip /\ streak.kind = kind
    THEN [streak EXCEPT
            !.admitted = IF @ > limiter.capacity THEN @ ELSE @ + 1,
            !.before = Available(ip)]
    ELSE [ip |-> ip, kind |-> kind, admitted |-> 1,
          start |-> Available(ip), before |-> Available(ip)]

\* The caller sent something else: its run is over.
Broken(ip) == IF streak.ip = ip THEN NoStreak ELSE streak

verifyRequest(force, ip, authorization) ==
    /\ Ready
    /\ IF ip = ""
       THEN /\ last' = Checked("verifyRequest", force, ip, authorization, 0,
                               FALSE, 400, Text("Bad Request"))
            /\ UNCHANGED <<tokens, burst, streak, houseVars, serviceVars>>
       ELSE IF ~canConsume(ip, 1)
       THEN /\ last' = Checked("verifyRequest", force, ip, authorization, 0,
                               FALSE, 429, TooManyRequests(ip))
            /\ UNCHANGED <<tokens, burst, streak, houseVars, serviceVars>>
       ELSE IF authorization.scheme # "Bearer"
       THEN /\ last' = IF force
                       THEN Checked("verifyRequest", force, ip, authorization,
                                    0, FALSE, 400, Text("Unauthorized"))
                       ELSE Checked("verifyRequest", force, ip, authorization,
                                    0, TRUE, 0, NoBody)
            /\ streak' = Broken(ip)
            /\ UNCHANGED <<houseVars, serviceVars>>
            /\ UNCHANGED <<tokens, burst>>
       ELSE LET user == verifyToken(authorization.credentials)
                result == consume(ip, 1)
            IN IF ~user.ok
               THEN /\ tokens' = result.tokens
                    /\ burst' = Granted(ip, 1, result.ok)
                    /\ streak' = Extended(ip, "user")
                    /\ UNCHANGED <<houseVars, serviceVars>>
                    /\ last' = Checked("verifyRequest", force, ip,
                                       authorization, 0, FALSE, 401,
                                       Text("Unauthorized"))
               ELSE /\ last' = Identified(Checked("verifyRequest", force, ip,
                                                  authorization, user.id,
                                                  TRUE, 0, NoBody),
                                          user.user)
                    /\ streak' = Broken(ip)
                    /\ UNCHANGED <<houseVars, serviceVars>>
                    /\ UNCHANGED <<tokens, burst>>
    /\ UNCHANGED <<seconds, millis, ticks, rand, activeStates, authTokens,
                   account_tokens, nextRow, calls, minted, lapsed, uses,
                   limiter, sessionVars, storeVars>>

authService(force, ip, authorization) ==
    /\ Ready
    /\ IF ip = ""
       THEN /\ last' = Checked("authService", force, ip, authorization, 0,
                               FALSE, 400, Text("Bad Request"))
            /\ UNCHANGED <<tokens, burst, streak, houseVars, serviceVars>>
       ELSE IF ~canConsume(ip, 1)
       THEN /\ last' = Checked("authService", force, ip, authorization, 0,
                               FALSE, 429, TooManyRequests(ip))
            /\ UNCHANGED <<tokens, burst, streak, houseVars, serviceVars>>
       ELSE IF \/ authorization.scheme # "Bearer"
               \/ Len(authorization.credentials) # Len(serviceToken)
       THEN /\ last' = IF force
                       THEN Checked("authService", force, ip, authorization,
                                    0, FALSE, 400, Text("Unauthorized"))
                       ELSE Checked("authService", force, ip, authorization,
                                    0, TRUE, 0, NoBody)
            /\ streak' = Broken(ip)
            /\ UNCHANGED <<houseVars, serviceVars>>
            /\ UNCHANGED <<tokens, burst>>
       ELSE IF authorization.credentials # serviceToken
       THEN LET result == consume(ip, 5)
            IN /\ tokens' = result.tokens
               /\ burst' = Granted(ip, 5, result.ok)
               /\ streak' = Extended(ip, "service")
               /\ UNCHANGED <<houseVars, serviceVars>>
               /\ last' = Checked("authService", force, ip, authorization, 0,
                                  FALSE, 401, Text("Unauthorized"))
       ELSE /\ last' = Checked("authService", force, ip, authorization, 1,
                               TRUE, 0, NoBody)
            /\ streak' = Broken(ip)
            /\ UNCHANGED <<houseVars, serviceVars>>
            /\ UNCHANGED <<tokens, burst>>
    /\ UNCHANGED <<seconds, millis, ticks, rand, activeStates, authTokens,
                   account_tokens, nextRow, calls, minted, lapsed, uses,
                   limiter, sessionVars, storeVars>>

\* What a caller may send as a user credential: nothing, a token the server
\* signed, or such a token signed with another key.
UserHeaders ==
    {NoHeader} \cup {Bearer(t) : t \in signed}
               \cup {Bearer([t EXCEPT !.key = "other.key"]) : t \in signed}

\* What a caller may send as the service credential: nothing, the secret, a
\* wrong value of the secret's length, a value of another length.
ServiceHeaders ==
    {NoHeader, Bearer(serviceToken), Bearer("s3cr3T"), Bearer("guess")}

\* Time passes: the refill of one token or of the whole bucket, or the
\* lifetime of an access token.
AuthSteps == {limiter.period, Units(limiter.capacity), AccessTtl * 1000}

\* The server some time after start: one access token has been signed.
InitAuth ==
    /\ limiter = authPool
    /\ tokens = EmptyMap
    /\ burst = NoBurst
    /\ streak = NoStreak
    /\ minorTasks = <<>>
    /\ majorTasks = <<>>
    /\ executed = <<>>
    /\ accounts = EmptyMap
    /\ activeTokens = EmptyMap
    /\ accessLog = <<>>
    /\ seconds = StartSeconds
    /\ signed = {generateToken(buildAPIUser(ServiceUser(1), 1, "discord"))}
    /\ pending = {}
    /\ ended = {}
    /\ millis = 0
    /\ ticks = 0
    /\ rand = 0
    /\ activeStates = EmptyMap
    /\ authTokens = EmptyMap
    /\ account_tokens = {}
    /\ nextRow = 1
    /\ calls = [c \in Calls |-> Idle]
    /\ last = NoSegment
    /\ minted = EmptyMap
    /\ lapsed = {}
    /\ uses = EmptyMap

NextAuth ==
    \/ \E force \in BOOLEAN, ip \in Addresses \cup {""}, h \in UserHeaders :
          verifyRequest(force, ip, h)
    \/ \E force \in BOOLEAN, ip \in Addresses \cup {""}, h \in ServiceHeaders :
          authService(force, ip, h)
    \/ cleanup
    \/ \E ms \in AuthSteps : Elapse(ms)
    \/ Return

SpecAuth == InitAuth /\ [][NextAuth]_vars

---------------------------------------------------------------------------
(* POST /token: handleRefreshToken, one segment per await.  refreshDevice  *)
(* draws the new token, awaits the UPDATE, then awaits the SELECT; the     *)
(* handler then awaits the provider's getUser and the signing.  Each       *)
(* statement of the Store is atomic; ok is whether the awaited operation   *)
(* succeeded.                                                              *)

\* A refresh token randomBytes never draws.
Unknown == MaxRand + 1

\* The refresh tokens a client has been given.
Held == {row.token : row \in {r \in account_tokens : r.id = 0}}
            \cup {accessLog[i].refresh_token : i \in 1..Len(accessLog)}

\* POST /token, up to the await of refreshDevice's UPDATE.
handleRefreshToken(c, token) ==
    /\ Ready
    /\ FreeSlot(c)
    /\ IF token = 0
       THEN /\ last' = Answered("handleRefreshToken", token, 400,
                                Text("Bad Request"))
            /\ UNCHANGED <<rand, calls>>
       ELSE /\ rand < MaxRand
            /\ rand' = rand + 1
            /\ last' = Awaiting("handleRefreshToken", token)
            /\ calls' = [calls EXCEPT ![c] =
                            Suspended("update", "handleRefreshToken", token,
                                      [NoLocal EXCEPT
                                         !.token = rand + 1,
                                         !.after = token \in ended])]
    /\ UNCHANGED <<seconds, millis, ticks, activeStates, authTokens,
                   account_tokens, nextRow, minted, lapsed, uses,
                   limiterVars, authVars, houseVars, serviceVars, sessionVars, storeVars>>

\* Mutant of Matching: the expiry of the Device is not looked at.
MatchingAnyExpiry(token) == {row \in account_tokens : row.token = token}

\* The rows UPDATE ... WHERE token = ? AND expires_at > UNIX_TIMESTAMP() hits.
Matching(token) ==
    {row \in account_tokens :
        row.token = token /\ row.expires_at > UNIX_TIMESTAMP}

\* Mutant of Rotated: the expiry of the Device is left as it was.
RotatedKeepsExpiry(row, newToken) == [row EXCEPT !.token = newToken]

\* UPDATE account_tokens SET token = ?, expires_at = UNIX_TIMESTAMP() + 30 days
Rotated(row, newToken) ==
    [row EXCEPT !.token = newToken,
                !.expires_at = UNIX_TIMESTAMP + DeviceTtl]

\* The UPDATE of refreshDevice settles and refreshDevice goes on to its
\* SELECT, or throws and the handler answers.
refreshDeviceUpdate(c, ok) ==
    /\ Ready
    /\ calls[c].pc = "update"
    /\ LET token == calls[c].arg
           newToken == calls[c].local.token
           hit == IF ok THEN Matching(token) ELSE {}
       IN IF hit = {}
          THEN /\ last' = Resumed(calls[c], 401, Text("Invalid token"))
               /\ calls' = [calls EXCEPT ![c] = Idle]
               /\ UNCHANGED <<account_tokens, minted, uses>>
          ELSE /\ account_tokens' =
                     (account_tokens \ hit)
                         \cup {Rotated(row, newToken) : row \in hit}
               /\ uses' = CountUse(token)
               /\ minted' = MapSet(minted, newToken,
                                   [kind |-> "refresh",
                                    account |-> (CHOOSE row \in hit : TRUE).user,
                                    from |-> token])
               /\ last' = Resumed(calls[c], 0, NoBody)
               /\ calls' = [calls EXCEPT
                              ![c].pc = "select",
                              ![c].local.device =
                                  (CHOOSE row \in hit : TRUE).id]
    /\ UNCHANGED <<seconds, millis, ticks, rand, activeStates, authTokens,
                   nextRow, lapsed, limiterVars, authVars, houseVars, serviceVars, sessionVars, storeVars>>

\* The SELECT of refreshDevice settles: the account of the row that holds
\* the new token.  The handler then looks up the provider (only "discord"
\* is registered, and every account is one of its users) and awaits getUser.
refreshDeviceSelect(c, ok) ==
    /\ Ready
    /\ calls[c].pc = "select"
    /\ LET found == IF ok
                    THEN {row \in account_tokens :
                             row.token = calls[c].local.token}
                    ELSE {}
       IN IF found = {}
          THEN /\ last' = Resumed(calls[c], 401, Text("Invalid token"))
               /\ calls' = [calls EXCEPT ![c] = Idle]
          ELSE /\ last' = Resumed(calls[c], 0, NoBody)
               /\ calls' = [calls EXCEPT
                              ![c].pc = "getUser",
                              ![c].local.id = (CHOOSE row \in found : TRUE).user]
    /\ UNCHANGED <<seconds, millis, ticks, rand, activeStates, authTokens,
                   account_tokens, nextRow, minted, lapsed, uses,
                   limiterVars, authVars, houseVars, serviceVars, sessionVars, storeVars>>

\* handler.getUser settles; on success the handler builds the API user and
\* calls generateToken, which stamps the token with the present second.
getUserSettled(c, ok) ==
    /\ Ready
    /\ calls[c].pc = "getUser"
    /\ IF ~ok
       THEN /\ last' = Resumed(calls[c], 500,
                               Text("Failed to get user information"))
            /\ calls' = [calls EXCEPT ![c] = Idle]
       ELSE LET id == calls[c].local.id
                user == buildAPIUser(ServiceUser(id), id, "discord")
            IN /\ last' = Resumed(calls[c], 0, NoBody)
               /\ calls' = [calls EXCEPT
                              ![c].pc = "sign",
                              ![c].local.access = generateToken(user)]
    /\ UNCHANGED <<seconds, millis, ticks, rand, activeStates, authTokens,
                   account_tokens, nextRow, minted, lapsed, uses,
                   limiterVars, authVars, houseVars, serviceVars, sessionVars, storeVars>>

\* The signing settles and the handler answers.
signSettled(c, ok) ==
    /\ Ready
    /\ calls[c].pc = "sign"
    /\ IF ~ok
       THEN /\ last' = Resumed(calls[c], 500,
                               Text("Failed to generate an access token"))
            /\ UNCHANGED sessionVars
       ELSE LET access == calls[c].local.access
                body == [NoBody EXCEPT
                           !.access_token = access,
                           !.expires_in = AccessTtl - 60,
                           !.token = calls[c].local.token]
            IN /\ last' = Resumed(calls[c], 200, body)
               /\ signed' = signed \cup {access}
               /\ accessLog' = Append(accessLog,
                                      [device |-> calls[c].local.device,
                                       access_token |-> access,
                                       refresh_token |-> calls[c].local.token])
    /\ calls' = [calls EXCEPT ![c] = Idle]
    /\ UNCHANGED <<seconds, millis, ticks, rand, activeStates, authTokens,
                   account_tokens, nextRow, minted, lapsed, uses,
                   limiterVars, authVars, houseVars, serviceVars, storeVars>>

\* Housekeeping's major task of the adapter:
\* DELETE FROM account_tokens WHERE expires_at < UNIX_TIMESTAMP()
cleanTokens ==
    /\ Ready
    /\ account_tokens' = {row \in account_tokens :
                              ~(row.expires_at < UNIX_TIMESTAMP)}
    /\ UNCHANGED <<seconds, millis, ticks, rand, activeStates, authTokens,
                   nextRow, calls, last, minted, lapsed, uses,
                   limiterVars, authVars, houseVars, serviceVars, sessionVars, storeVars>>

\* Time passes, in whole seconds: a second, or up to and past the expiry of
\* an access token, which is also the expiry of the first Device.
SessionSteps == {1, AccessTtl, AccessTtl + 1}

Pass(s) ==
    /\ Ready
    /\ ticks < MaxTicks
    /\ ticks' = ticks + 1
    /\ seconds' = seconds + s
    /\ streak' = NoStreak
    /\ UNCHANGED <<houseVars, serviceVars>>
    /\ UNCHANGED <<millis, rand, activeStates, authTokens, account_tokens,
                   nextRow, calls, last, minted, lapsed, uses, limiterVars,
                   sessionVars, storeVars>>

\* What a client may present as a refresh token: nothing, a token it was
\* given, or a value that was never issued.
RefreshParams == {0, Unknown} \cup Held

\* The server 30 days less 15 minutes after a login: a Device of account 1
\* holds refresh token 1.
InitSession ==
    /\ limiter = authPool
    /\ tokens = EmptyMap
    /\ burst = NoBurst
    /\ streak = NoStreak
    /\ minorTasks = <<>>
    /\ majorTasks = <<>>
    /\ executed = <<>>
    /\ accounts = EmptyMap
    /\ activeTokens = EmptyMap
    /\ accessLog = <<[device |-> 1, access_token |-> NoAccess,
                      refresh_token |-> 1]>>
    /\ signed = {}
    /\ pending = {}
    /\ ended = {}
    /\ seconds = StartSeconds
    /\ millis = 0
    /\ ticks = 0
    /\ rand = 1
    /\ activeStates =
          MapSet(EmptyMap, Unknown + 1,
                 [timeout |-> DateNow + StateTtl, clientState |-> "abc123",
                  redirect |-> "http://localhost:8080/auth"])
    /\ authTokens =
          MapSet(EmptyMap, Unknown + 2,
                 [id |-> 1, expiresAt |-> DateNow + 1000])
    /\ account_tokens = {[id |-> 1, user |-> 1, token |-> 1,
                          expires_at |-> StartSeconds + AccessTtl]}
    /\ nextRow = 2
    /\ calls = [c \in Calls |-> Idle]
    /\ last = NoSegment
    /\ minted = MapSet(EmptyMap, 1, [kind |-> "refresh", account |-> 1, from |-> 0])
    /\ lapsed = {}
    /\ uses = EmptyMap

NextSession ==
    \/ \E c \in Calls, token \in RefreshParams : handleRefreshToken(c, token)
    \/ \E c \in Calls, ok \in BOOLEAN : refreshDeviceUpdate(c, ok)
    \/ \E c \in Calls, ok \in BOOLEAN : refreshDeviceSelect(c, ok)
    \/ \E c \in Calls, ok \in BOOLEAN : getUserSettled(c, ok)
    \/ \E c \in Calls, ok \in BOOLEAN : signSettled(c, ok)
    \/ \E t \in signed : verifyRequest(TRUE, "10.0.0.1", Bearer(t))
    \/ cleanTokens
    \/ cleanUpTokens
    \/ \E s \in SessionSteps : Pass(s)
    \/ Return

SpecSession == InitSession /\ [][NextSession]_vars

---------------------------------------------------------------------------
(* Revocation.  revoke and logout start a DELETE and answer without        *)
(* awaiting it; its failure is dropped.  The connection pool runs the      *)
(* statements of different requests in no fixed order, so a started DELETE *)
(* is pending until the Store has run it.                                  *)

\* Mutant of DeleteWhereToken: every Device of the account that holds the
\* token goes.
DeleteWhereTokenAccount(table, token) ==
    {row \in table :
        \A held \in table : held.token = token => row.user # held.user}

\* DELETE FROM account_tokens WHERE token = ?
DeleteWhereToken(table, token) == {row \in table : row.token # token}

\* Mutant of DeleteWhereUser: the Device the account registered last stays.
DeleteWhereUserButLast(table, id) ==
    {row \in table :
        row.user = id => \A other \in table : other.user = id => other.id <= row.id}

\* DELETE FROM account_tokens WHERE user = ?
DeleteWhereUser(table, id) == {row \in table : row.user # id}

\* The statement revokeDevice(token) hands to run().
revokeDevice(token) == [where |-> "token", value |-> token]

\* The statement the adapter's logout(id) hands to run().
logoutDevices(id) == [where |-> "user", value |-> id]

\* The table after the Store has run a statement.
Deleted(table, statement) ==
    IF statement.where = "token"
    THEN DeleteWhereToken(table, statement.value)
    ELSE DeleteWhereUser(table, statement.value)

\* The refresh tokens the Devices of an account hold.
TokensOf(user) ==
    {row.token : row \in {r \in account_tokens : r.user = user}}

\* POST /revoke: synchronous; revokeDevice is started, not awaited.
revoke(token) ==
    /\ Ready
    /\ IF token = 0
       THEN /\ last' = Answered("revoke", token, 400, Text("Bad Request"))
            /\ UNCHANGED storeVars
       ELSE /\ Cardinality(pending \cup {revokeDevice(token)}) <= MaxPending
            /\ Cardinality(ended \cup {token}) <= MaxEnded
            /\ last' = Answered("revoke", token, 200, Text("OK"))
            /\ pending' = pending \cup {revokeDevice(token)}
            /\ ended' = ended \cup {token}
    /\ UNCHANGED <<seconds, millis, ticks, rand, activeStates, authTokens,
                   account_tokens, nextRow, calls, minted, lapsed, uses,
                   limiterVars, authVars, houseVars, serviceVars, sessionVars>>

\* POST /logout for the authenticated user: synchronous; the adapter's
\* logout is started, not awaited.
logout(user) ==
    /\ Ready
    /\ Cardinality(pending \cup {logoutDevices(user)}) <= MaxPending
    /\ Cardinality(ended \cup TokensOf(user)) <= MaxEnded
    /\ last' = Answered("logout", user, 200, Text("OK"))
    /\ pending' = pending \cup {logoutDevices(user)}
    /\ ended' = ended \cup TokensOf(user)
    /\ UNCHANGED <<seconds, millis, ticks, rand, activeStates, authTokens,
                   account_tokens, nextRow, calls, minted, lapsed, uses,
                   limiterVars, authVars, houseVars, serviceVars, sessionVars>>

\* The segment in which the promise of a started DELETE settles: the
\* adapter function that started it (op), what it was called with (arg) and
\* whether the Store ran the statement (passed).  Its .catch(() => {})
\* drops a failure, so there is no response.
Dropped(statement, ok) ==
    [NoSegment EXCEPT
       !.op = IF statement.where = "token" THEN "revokeDevice"
                                           ELSE "logoutDevices",
       !.arg = statement.value, !.phase = "resume", !.passed = ok]

\* The Store runs a pending DELETE, or fails to (ok is false); either way
\* nobody is told.
deleteSettled(statement, ok) ==
    /\ Ready
    /\ statement \in pending
    /\ pending' = pending \ {statement}
    /\ account_tokens' = IF ok THEN Deleted(account_tokens, statement)
                               ELSE account_tokens
    /\ last' = Dropped(statement, ok)
    /\ UNCHANGED <<seconds, millis, ticks, rand, activeStates, authTokens,
                   nextRow, calls, minted, lapsed, uses, ended,
                   limiterVars, authVars, houseVars, serviceVars, sessionVars>>

\* Time passes up to the expiry of the first Devices, or a second past it.
StoreSteps == {AccessTtl, AccessTtl + 1}

\* The accounts that have logged in at some time: the users POST /logout
\* can authenticate.
Registered ==
    {minted[v].account : v \in {x \in DOMAIN minted : minted[x].kind = "refresh"}}

\* Time passes until the first Device has expired.
RevokeSteps == {AccessTtl + 1}

\* The refresh tokens of the Devices registered before the server started.
Earlier == {101, 102, 103}

\* What a client may present to POST /revoke: nothing, the token of a
\* Device, or a value that was never issued.
StoreParams == {0, Unknown} \cup Earlier

\* The server 30 days less 15 minutes after three logins: account 1 has
\* two Devices, account 2 has one.
InitStore ==
    /\ limiter = authPool
    /\ tokens = EmptyMap
    /\ burst = NoBurst
    /\ streak = NoStreak
    /\ minorTasks = <<>>
    /\ majorTasks = <<>>
    /\ executed = <<>>
    /\ accounts = EmptyMap
    /\ activeTokens = EmptyMap
    /\ accessLog = <<>>
    /\ pending = {}
    /\ ended = {}
    /\ seconds = StartSeconds
    /\ signed = {generateToken(buildAPIUser(ServiceUser(account), account,
                                          "discord")) :
                   account \in Accounts}
    /\ millis = 0
    /\ ticks = 0
    /\ rand = 0
    /\ activeStates = EmptyMap
    /\ authTokens = EmptyMap
    /\ account_tokens =
          {[id |-> 1, user |-> 1, token |-> 101,
            expires_at |-> StartSeconds + AccessTtl],
           [id |-> 2, user |-> 1, token |-> 102,
            expires_at |-> StartSeconds + AccessTtl],
           [id |-> 3, user |-> 2, token |-> 103,
            expires_at |-> StartSeconds + AccessTtl]}
    /\ nextRow = 4
    /\ calls = [c \in Calls |-> Idle]
    /\ last = NoSegment
    /\ minted = [v \in Earlier |->
                    [kind |-> "refresh",
                     account |-> IF v = 103 THEN 2 ELSE 1, from |-> 0]]
    /\ lapsed = {}
    /\ uses = EmptyMap

NextStore ==
    \/ \E token \in StoreParams : revoke(token)
    \/ \E user \in Registered : logout(user)
    \/ \E statement \in pending, ok \in BOOLEAN : deleteSettled(statement, ok)
    \/ cleanTokens
    \/ \E ip \in Addresses, token \in signed :
          ~MapHas(tokens, ip) /\ verifyRequest(TRUE, ip, Bearer(token))
    \/ \E s \in StoreSteps : Pass(s)
    \/ Return

SpecStore == InitStore /\ [][NextStore]_vars

\* POST /token and POST /revoke, POST /logout side by side, from the state
\* of InitSession: a Device of account 1 holds refresh token 1.
NextRevoke ==
    \/ \E c \in Calls, token \in RefreshParams : handleRefreshToken(c, token)
    \/ \E c \in Calls, ok \in BOOLEAN : refreshDeviceUpdate(c, ok)
    \/ \E c \in Calls, ok \in BOOLEAN : refreshDeviceSelect(c, ok)
    \/ \E c \in Calls, ok \in BOOLEAN : getUserSettled(c, ok)
    \/ \E c \in Calls, ok \in BOOLEAN : signSettled(c, ok)
    \/ \E token \in RefreshParams : revoke(token)
    \/ \E user \in Registered : logout(user)
    \/ \E statement \in pending, ok \in BOOLEAN : deleteSettled(statement, ok)
    \/ cleanTokens
    \/ \E s \in RevokeSteps : Pass(s)
    \/ Return

SpecRevoke == InitSession /\ [][NextRevoke]_vars

\* POST /token with two Devices in the Store.  A client presents a token a
\* Device held at the start or a token it was given since.
RotateParams ==
    {101, 103}
        \cup {accessLog[i].refresh_token : i \in 1..Len(accessLog)}

\* The server 30 days less 15 minutes after two logins: account 1 and
\* account 2 have a Device each.
InitRotate ==
    /\ limiter = authPool
    /\ tokens = EmptyMap
    /\ burst = NoBurst
    /\ streak = NoStreak
    /\ minorTasks = <<>>
    /\ majorTasks = <<>>
    /\ executed = <<>>
    /\ accounts = EmptyMap
    /\ activeTokens = EmptyMap
    /\ accessLog = <<>>
    /\ signed = {}
    /\ pending = {}
    /\ ended = {}
    /\ seconds = StartSeconds
    /\ millis = 0
    /\ ticks = 0
    /\ rand = 0
    /\ activeStates = EmptyMap
    /\ authTokens = EmptyMap
    /\ account_tokens =
          {[id |-> 1, user |-> 1, token |-> 101,
            expires_at |-> StartSeconds + AccessTtl],
           [id |-> 3, user |-> 2, token |-> 103,
            expires_at |-> StartSeconds + AccessTtl]}
    /\ nextRow = 4
    /\ calls = [c \in Calls |-> Idle]
    /\ last = NoSegment
    /\ minted = [v \in {101, 103} |->
                    [kind |-> "refresh",
                     account |-> IF v = 103 THEN 2 ELSE 1, from |-> 0]]
    /\ lapsed = {}
    /\ uses = EmptyMap

NextRotate ==
    \/ \E c \in Calls, token \in RotateParams : handleRefreshToken(c, token)
    \/ \E c \in Calls, ok \in BOOLEAN : refreshDeviceUpdate(c, ok)
    \/ \E c \in Calls, ok \in BOOLEAN : refreshDeviceSelect(c, ok)
    \/ \E c \in Calls, ok \in BOOLEAN : getUserSettled(c, ok)
    \/ \E c \in Calls, ok \in BOOLEAN : signSettled(c, ok)
    \/ cleanTokens
    \/ \E s \in StoreSteps : Pass(s)
    \/ Return

SpecRotate == InitRotate /\ [][NextRotate]_vars

---------------------------------------------------------------------------
(* The access-token functions on their own: tokens are signed for users    *)
(* and account ids drawn from small sets, and those tokens and defective   *)
(* variants of them are verified, directly and through verifyRequest, at   *)
(* different times.  Each request comes from an address whose bucket is   *)
(* full, so that it is admitted to the verification.                       *)

\* What handler.getUser may have returned.
TokenUsers == {ServiceUser(1), ServiceUser(2)}

\* generateToken(buildAPIUser(user, id, "discord")) is called, or
\* generateExternalToken for the same user.
callGenerateToken(user, id, external) ==
    /\ Ready
    /\ Cardinality(signed) < MaxSigned
    /\ LET apiUser == buildAPIUser(user, id, "discord")
           token == IF external
                    THEN generateExternalToken(apiUser, "example.com")
                                ELSE generateToken(apiUser)
       IN /\ token \notin signed
          /\ signed' = signed \cup {token}
          /\ last' = [NoSegment EXCEPT
                        !.op = IF external THEN "generateExternalToken"
                                           ELSE "generateToken",
                        !.arg = id, !.phase = "call", !.passed = TRUE,
                        !.body = [NoBody EXCEPT !.access_token = token]]
    /\ UNCHANGED <<seconds, millis, ticks, rand, activeStates, authTokens,
                   account_tokens, nextRow, calls, minted, lapsed, uses,
                   limiterVars, authVars, houseVars, serviceVars, accessLog, storeVars>>

\* The tokens that differ from a signed token by one defect: another key,
\* a claim that is not a string, an id that is no sqid or not a string.
Defects(token) ==
    {[token EXCEPT !.key = "other.key"],
     [token EXCEPT !.type = NotAString],
     [token EXCEPT !.service = NotAString],
     [token EXCEPT !.user_id = NotAString],
     [token EXCEPT !.username = NotAString],
     [token EXCEPT !.avatar_url = NotAString],
     [token EXCEPT !.id = <<"text", 0>>],
     [token EXCEPT !.id = <<"number", token.id[2]>>]}

\* What may be presented for verification.
Presented == signed \cup UNION {Defects(token) : token \in signed}

\* verifyToken(token) is called and settles.
callVerifyToken(token) ==
    /\ Ready
    /\ LET user == verifyToken(token)
       IN last' = Identified(Checked("verifyToken", FALSE, "", Bearer(token),
                                     user.id, user.ok, 0, NoBody),
                             user.user)
    /\ UNCHANGED <<seconds, millis, ticks, rand, activeStates, authTokens,
                   account_tokens, nextRow, calls, minted, lapsed, uses,
                   limiterVars, authVars, houseVars, serviceVars, sessionVars, storeVars>>

\* toAPIUser(user)
toAPIUser(user) ==
    [id |-> prettifyId(user.id), service |-> user.service,
     user_id |-> user.user_id, username |-> user.username,
     avatar_url |-> user.avatar_url]

\* The hosts a caller may name in the body; "" for none.
Hosts == {"", "example.com", "play.example"}

\* POST /token/external once verifyRequest(true, req) has resolved with a
\* user: the route's rateLimit on the authPool, then handleExternalToken.
\* ok is whether the signing succeeded.
handleExternalToken(host, ok) ==
    /\ last.op = "verifyRequest" /\ last.passed /\ last.force
    /\ LET result == consume(last.ip, 1)
           token == generateExternalToken(toAPIUser(last.user), host)
           answer(status, body) ==
               [last EXCEPT !.op = "handleExternalToken", !.arg = host,
                            !.phase = "resume", !.status = status,
                            !.body = body]
       IN /\ tokens' = result.tokens
          /\ burst' = Granted(last.ip, 1, result.ok)
          /\ last' = IF ~result.ok
                     THEN answer(429, TooManyRequests(last.ip))
                     ELSE IF host = ""
                     THEN answer(400, Text("Bad Request"))
                     ELSE IF ~ok
                     THEN answer(500,
                                 Text("Failed to generate external token"))
                     ELSE answer(200, [NoBody EXCEPT !.access_token = token])
    /\ UNCHANGED <<seconds, millis, ticks, rand, activeStates, authTokens,
                   account_tokens, nextRow, calls, minted, lapsed, uses,
                   limiter, authVars, houseVars, serviceVars, sessionVars, storeVars>>

\* A third party at host checks an external token as the API documents it:
\* the signature with the public key, the expiry and the aud claim.
verifyAtHost(token, host) ==
    /\ token.key = "private.key"
    /\ UNIX_TIMESTAMP < token.exp
    /\ "aud" \in DOMAIN token
    /\ token.aud = host

\* Time passes: to a second before the expiry of an access token signed
\* now, to its expiry, or a second past it.
TokenSteps == {AccessTtl - 1, AccessTtl, AccessTtl + 1}

\* The server before any token was signed.
InitToken ==
    /\ limiter = authPool
    /\ tokens = EmptyMap
    /\ burst = NoBurst
    /\ streak = NoStreak
    /\ minorTasks = <<>>
    /\ majorTasks = <<>>
    /\ executed = <<>>
    /\ accounts = EmptyMap
    /\ activeTokens = EmptyMap
    /\ accessLog = <<>>
    /\ signed = {}
    /\ pending = {}
    /\ ended = {}
    /\ seconds = StartSeconds
    /\ millis = 0
    /\ ticks = 0
    /\ rand = 0
    /\ activeStates = EmptyMap
    /\ authTokens = EmptyMap
    /\ account_tokens = {}
    /\ nextRow = 1
    /\ calls = [c \in Calls |-> Idle]
    /\ last = NoSegment
    /\ minted = EmptyMap
    /\ lapsed = {}
    /\ uses = EmptyMap

NextToken ==
    \/ \E user \in TokenUsers, id \in Accounts, external \in BOOLEAN :
          callGenerateToken(user, id, external)
    \/ \E token \in Presented : callVerifyToken(token)
    \/ \E force \in BOOLEAN, ip \in Addresses, token \in Presented :
          ~MapHas(tokens, ip) /\ verifyRequest(force, ip, Bearer(token))
    \/ \E host \in Hosts, ok \in BOOLEAN : handleExternalToken(host, ok)
    \/ \E s \in TokenSteps : Pass(s)
    \/ Return

SpecToken == InitToken /\ [][NextToken]_vars

---------------------------------------------------------------------------
(* The Store that tells the devices of an account apart: account_tokens   *)
(* has the columns id (the account), device_id, token and expires_at, and  *)
(* PRIMARY KEY (id, device_id).  registerDevice and refreshDevice of this  *)
(* Store take the device key; each is one statement on the table (the      *)
(* SELECT that follows the UPDATE reads the accounts).                     *)

\* The device keys a client may name.
DeviceKeys == {"phone", "laptop"}

\* Mutant of Upserted: the row is added, whatever the table holds.
UpsertedBeside(table, row) == table \cup {row}

\* INSERT ... AS new ON DUPLICATE KEY UPDATE token = new.token,
\* expires_at = new.expires_at, under PRIMARY KEY (id, device_id).
Upserted(table, row) ==
    {kept \in table : kept.id # row.id \/ kept.device_id # row.device_id}
        \cup {row}

\* The rows UPDATE ... WHERE token = ? AND device_id = ? AND
\* expires_at > UNIX_TIMESTAMP() hits.
MatchingDevice(token, device) ==
    {row \in account_tokens :
        /\ row.token = token /\ row.device_id = device
        /\ row.expires_at > UNIX_TIMESTAMP}

\* registerDevice(id, device): the token is drawn and the INSERT settles
\* (inserted: the Store ran it); the token is returned either way.
registerDeviceKeyed(id, device, inserted) ==
    /\ Ready
    /\ rand < MaxRand
    /\ rand' = rand + 1
    /\ LET token == rand + 1
           row == [id |-> id, device_id |-> device, token |-> token,
                   expires_at |-> UNIX_TIMESTAMP + DeviceTtl]
           replaced == {old.token : old \in
                          {r \in account_tokens :
                              r.id = id /\ r.device_id = device}}
       IN /\ IF inserted
             THEN /\ account_tokens' = Upserted(account_tokens, row)
                  /\ ended' = ended \cup replaced
             ELSE UNCHANGED <<account_tokens, ended>>
          /\ last' = [NoSegment EXCEPT
                        !.op = "registerDevice", !.arg = id,
                        !.phase = "resume", !.passed = inserted,
                        !.body = [NoBody EXCEPT !.token = token]]
    /\ UNCHANGED <<seconds, millis, ticks, activeStates, authTokens, nextRow,
                   calls, minted, lapsed, uses, limiterVars, authVars, houseVars, serviceVars,
                   sessionVars, pending>>

\* refreshDevice(token, device): the new token is drawn and the UPDATE
\* settles (ok: the Store ran it); when it changed a row, the SELECT settles
\* (found: it returned the account) and refreshDevice returns or throws.
refreshDeviceKeyed(token, device, ok, found) ==
    /\ Ready
    /\ rand < MaxRand
    /\ rand' = rand + 1
    /\ LET newToken == rand + 1
           hit == IF ok THEN MatchingDevice(token, device) ELSE {}
       IN IF hit = {}
          THEN /\ last' = [NoSegment EXCEPT
                             !.op = "refreshDevice", !.arg = token,
                             !.phase = "resume", !.passed = FALSE,
                             !.body = Text("Token not found")]
               /\ UNCHANGED <<account_tokens, ended>>
          ELSE /\ account_tokens' =
                     (account_tokens \ hit)
                         \cup {Rotated(row, newToken) : row \in hit}
               /\ ended' = ended \cup {token}
               /\ last' = [NoSegment EXCEPT
                             !.op = "refreshDevice", !.arg = token,
                             !.phase = "resume", !.passed = found,
                             !.body = IF found
                                      THEN [NoBody EXCEPT !.token = newToken]
                                      ELSE Text("User not found")]
    /\ UNCHANGED <<seconds, millis, ticks, activeStates, authTokens, nextRow,
                   calls, minted, lapsed, uses, limiterVars, authVars, houseVars, serviceVars,
                   sessionVars, pending>>

\* Time passes: to the expiry of a Device written now, or a second past it.
DeviceSteps == {DeviceTtl, DeviceTtl + 1}

\* The refresh tokens a client may present: none drawn yet, any drawn one.
DeviceParams == 0..rand

\* The server before any Device was registered.
InitDevice ==
    /\ limiter = authPool
    /\ tokens = EmptyMap
    /\ burst = NoBurst
    /\ streak = NoStreak
    /\ minorTasks = <<>>
    /\ majorTasks = <<>>
    /\ executed = <<>>
    /\ accounts = EmptyMap
    /\ activeTokens = EmptyMap
    /\ accessLog = <<>>
    /\ signed = {}
    /\ pending = {}
    /\ ended = {}
    /\ seconds = StartSeconds
    /\ millis = 0
    /\ ticks = 0
    /\ rand = 0
    /\ activeStates = EmptyMap
    /\ authTokens = EmptyMap
    /\ account_tokens = {}
    /\ nextRow = 1
    /\ calls = [c \in Calls |-> Idle]
    /\ last = NoSegment
    /\ minted = EmptyMap
    /\ lapsed = {}
    /\ uses = EmptyMap

NextDevice ==
    \/ \E id \in Accounts, device \in DeviceKeys, inserted \in BOOLEAN :
          registerDeviceKeyed(id, device, inserted)
    \/ \E token \in DeviceParams, device \in DeviceKeys,
          ok \in BOOLEAN, found \in BOOLEAN :
          refreshDeviceKeyed(token, device, ok, found)
    \/ cleanTokens
    \/ \E s \in DeviceSteps : Pass(s)
    \/ Return

SpecDevice == InitDevice /\ [][NextDevice]_vars

---------------------------------------------------------------------------
(* verifyRequest with other requests beside it.  The handler stops at      *)
(* "await verifyToken(...)": what follows the await runs in a later job,   *)
(* and the segments of other requests may run between the canConsume test  *)
(* and the penalty.  No time passes here, so nothing is refilled.          *)

\* verifyRequest up to the await.
verifyRequestChecked(c, force, ip, authorization) ==
    /\ Ready
    /\ FreeSlot(c)
    /\ IF ip = ""
       THEN /\ last' = Checked("verifyRequest", force, ip, authorization, 0,
                               FALSE, 400, Text("Bad Request"))
            /\ UNCHANGED calls
       ELSE IF ~canConsume(ip, 1)
       THEN /\ last' = Checked("verifyRequest", force, ip, authorization, 0,
                               FALSE, 429, TooManyRequests(ip))
            /\ UNCHANGED calls
       ELSE IF authorization.scheme # "Bearer"
       THEN /\ last' = IF force
                       THEN Checked("verifyRequest", force, ip, authorization,
                                    0, FALSE, 400, Text("Unauthorized"))
                       ELSE Checked("verifyRequest", force, ip, authorization,
                                    0, TRUE, 0, NoBody)
            /\ UNCHANGED calls
       ELSE /\ last' = [Checked("verifyRequest", force, ip, authorization, 0,
                                TRUE, 0, NoBody) EXCEPT !.pc = "verifyToken"]
            /\ calls' = [calls EXCEPT ![c] =
                            Suspended("verifyToken", "verifyRequest", ip,
                                      [NoLocal EXCEPT
                                         !.access = authorization.credentials,
                                         !.after = force])]
    /\ UNCHANGED <<seconds, millis, ticks, rand, activeStates, authTokens,
                   account_tokens, nextRow, minted, lapsed, uses,
                   limiterVars, authVars, houseVars, serviceVars, sessionVars,
                   storeVars>>

\* verifyRequest after the await: verifyToken has settled.
verifyTokenSettled(c) ==
    /\ Ready
    /\ calls[c].pc = "verifyToken"
    /\ LET ip == calls[c].arg
           authorization == Bearer(calls[c].local.access)
           force == calls[c].local.after
           user == verifyToken(calls[c].local.access)
           result == consume(ip, 1)
       IN IF ~user.ok
          THEN /\ tokens' = result.tokens
               /\ burst' = Granted(ip, 1, result.ok)
               /\ streak' = Extended(ip, "user")
               /\ last' = [Checked("verifyRequest", force, ip, authorization,
                                   0, FALSE, 401, Text("Unauthorized"))
                             EXCEPT !.phase = "resume"]
          ELSE /\ last' = [Identified(Checked("verifyRequest", force, ip,
                                              authorization, user.id, TRUE, 0,
                                              NoBody),
                                      user.user)
                             EXCEPT !.phase = "resume"]
               /\ UNCHANGED <<tokens, burst, streak>>
    /\ calls' = [calls EXCEPT ![c] = Idle]
    /\ UNCHANGED <<seconds, millis, ticks, rand, activeStates, authTokens,
                   account_tokens, nextRow, minted, lapsed, uses, limiter,
                   houseVars, serviceVars, sessionVars, storeVars>>

\* The caller's address holds some number of tokens of authPool, up to all.
InitRace ==
    /\ limiter = authPool
    /\ seconds = StartSeconds
    /\ millis = 0
    /\ \E k \in 0..limiter.capacity :
          /\ tokens = MapSet(EmptyMap, "10.0.0.1", DateNow - Units(k))
          /\ streak = [ip |-> "10.0.0.1", kind |-> "user", admitted |-> 0,
                       start |-> Units(k), before |-> Units(k)]
    /\ burst = NoBurst
    /\ minorTasks = <<>>
    /\ majorTasks = <<>>
    /\ executed = <<>>
    /\ accounts = EmptyMap
    /\ activeTokens = EmptyMap
    /\ accessLog = <<>>
    /\ signed = {generateToken(buildAPIUser(ServiceUser(1), 1, "discord"))}
    /\ pending = {}
    /\ ended = {}
    /\ ticks = 0
    /\ rand = 0
    /\ activeStates = EmptyMap
    /\ authTokens = EmptyMap
    /\ account_tokens = {}
    /\ nextRow = 1
    /\ calls = [c \in Calls |-> Idle]
    /\ last = NoSegment
    /\ minted = EmptyMap
    /\ lapsed = {}
    /\ uses = EmptyMap

NextRace ==
    \/ \E c \in Calls, force \in BOOLEAN, ip \in {"", "10.0.0.1"},
          h \in UserHeaders :
          verifyRequestChecked(c, force, ip, h)
    \/ \E c \in Calls : verifyTokenSettled(c)
    \/ Return

SpecRace == InitRace /\ [][NextRace]_vars

---------------------------------------------------------------------------
(* The second half of the handshake, for two users at once: both have been *)
(* to the provider and their callbacks have consumed their states, so two  *)
(* exchanges are in flight.                                                *)

InitHandoff ==
    /\ limiter = authPool
    /\ tokens = EmptyMap
    /\ burst = NoBurst
    /\ streak = NoStreak
    /\ minorTasks = <<>>
    /\ majorTasks = <<>>
    /\ executed = <<>>
    /\ accounts = EmptyMap
    /\ activeTokens = EmptyMap
    /\ accessLog = <<>>
    /\ signed = {}
    /\ pending = {}
    /\ ended = {}
    /\ seconds = StartSeconds
    /\ millis = 0
    /\ ticks = 0
    /\ rand = 0
    /\ activeStates = EmptyMap
    /\ authTokens = EmptyMap
    /\ account_tokens = {}
    /\ nextRow = 1
    /\ calls = [c \in Calls |->
                   IF c <= 2
                   THEN Suspended("exchange", "handleResponse", Unknown + c,
                                  [NoLocal EXCEPT
                                     !.redirect = "http://localhost:8080/auth",
                                     !.clientState = "abc123"])
                   ELSE Idle]
    /\ last = NoSegment
    /\ minted = [s \in {Unknown + 1, Unknown + 2} |->
                    [kind |-> "state", account |-> 0, from |-> 0]]
    /\ lapsed = {}
    /\ uses = [s \in {Unknown + 1, Unknown + 2} |-> 1]

NextHandoff ==
    \/ \E c \in Calls, id \in Accounts : exchangeResolved(c, id)
    \/ \E c \in Calls, message \in ProviderErrors : exchangeRejected(c, message)
    \/ \E c \in Calls, token \in Params : handleInitialToken(c, token)
    \/ \E c \in Calls, inserted \in BOOLEAN : registerDevice(c, inserted)
    \/ cleanUpTokens
    \/ \E ms \in {HandoffTtl, HandoffTtl + 1} : Tick(ms)
    \/ Return

SpecHandoff == InitHandoff /\ [][NextHandoff]_vars

---------------------------------------------------------------------------
(* Routes.  The function getRouteCallback builds for a route parses the    *)
(* parameters, awaits the authentication function of the route's kind, and *)
(* then limits the rate or not before it invokes the route's callback.     *)
(* The bucket of the route is authPool, as for the routes of the manager.  *)

AuthTypes == {"none", "user", "service"}

\* What became of the request so far: an answer of the route itself, or the
\* invocation of the callback (op "callback", pc the route's kind).
Routed(segment, op, authType, ip, tokenCount, passed, status, body) ==
    [segment EXCEPT !.op = op, !.pc = authType, !.ip = ip, !.arg = tokenCount,
                    !.phase = "resume", !.passed = passed, !.status = status,
                    !.body = body]

\* Mutant of exempt: no service route limits the rate.
exemptAnyService(auth) == auth.op = "authService"

\* The routes that go to the callback without rateLimit once the
\* authentication succeeded: required service authentication, and optional
\* service authentication when auth.user is true.
exempt(auth) == auth.op = "authService" /\ (auth.force \/ auth.arg = 1)

\* rateLimit(req, bucket, tokenCount) ?? callback(...)
limitedCallback(segment, authType, ip, tokenCount) ==
    LET result == consume(ip, tokenCount)
    IN /\ tokens' = IF ip = "" THEN tokens ELSE result.tokens
       /\ burst' = IF ip = "" THEN burst ELSE Granted(ip, tokenCount, result.ok)
       /\ last' = IF ip = ""
                  THEN Routed(segment, "route", authType, ip, tokenCount,
                              FALSE, 400, Text("Bad Request"))
                  ELSE IF ~result.ok
                  THEN Routed(segment, "route", authType, ip, tokenCount,
                              FALSE, 429,
                              [NoBody EXCEPT
                                 !.text = "Too Many Requests",
                                 !.retryAfter =
                                    (timeUntilRefill(ip, tokenCount) + 999)
                                        \div 1000])
                  ELSE Routed(segment, "callback", authType, ip, tokenCount,
                              TRUE, 0, NoBody)

\* The first segment of a route: the parameters are undefined and the answer
\* is 400 whatever the kind of the route, or the route has no authentication
\* and goes on to rateLimit.  (A route with authentication goes on to
\* verifyRequest or authService.)
routeEntered(authType, ip, tokenCount, parsed) ==
    /\ Ready
    /\ ~parsed \/ authType = "none"
    /\ IF ~parsed
       THEN /\ last' = Routed(NoSegment, "route", authType, ip, tokenCount,
                              FALSE, 400, Text("Bad Request"))
            /\ UNCHANGED <<tokens, burst>>
       ELSE limitedCallback(NoSegment, authType, ip, tokenCount)
    /\ UNCHANGED <<seconds, millis, ticks, rand, activeStates, authTokens,
                   account_tokens, nextRow, calls, minted, lapsed, uses,
                   limiter, authVars, houseVars, serviceVars, sessionVars,
                   storeVars>>

\* The segment after "await authFunc(req, sev)".
routeAuthenticated(tokenCount) ==
    /\ last.op \in {"verifyRequest", "authService"} /\ last.phase = "call"
    /\ LET authType == IF last.op = "verifyRequest" THEN "user" ELSE "service"
       IN IF ~last.passed
          THEN /\ last' = [last EXCEPT !.op = "route", !.pc = authType,
                                       !.phase = "resume"]
               /\ UNCHANGED <<tokens, burst>>
          ELSE IF exempt(last)
          THEN /\ last' = Routed(last, "callback", authType, last.ip, 0,
                                 TRUE, 0, NoBody)
               /\ UNCHANGED <<tokens, burst>>
          ELSE limitedCallback(last, authType, last.ip, tokenCount)
    /\ UNCHANGED <<seconds, millis, ticks, rand, activeStates, authTokens,
                   account_tokens, nextRow, calls, minted, lapsed, uses,
                   limiter, authVars, houseVars, serviceVars, sessionVars,
                   storeVars>>

NextRoute ==
    \/ \E authType \in AuthTypes, ip \in {"", "10.0.0.1"}, tokenCount \in Sizes,
          parsed \in BOOLEAN :
          routeEntered(authType, ip, tokenCount, parsed)
    \/ \E force \in BOOLEAN, ip \in {"", "10.0.0.1"}, h \in UserHeaders :
          verifyRequest(force, ip, h)
    \/ \E force \in BOOLEAN, ip \in {"", "10.0.0.1"}, h \in ServiceHeaders :
          authService(force, ip, h)
    \/ \E tokenCount \in Sizes : routeAuthenticated(tokenCount)
    \/ \E ms \in AuthSteps : Elapse(ms)
    \/ last.op \notin {"verifyRequest", "authService"} /\ Return

SpecRoute == InitAuth /\ [][NextRoute]_vars

---------------------------------------------------------------------------
(* The Discord adapter.  The provider hands out a refresh token with every *)
(* access token; the adapter keeps the access token in activeTokens and    *)
(* the refresh token in the accounts table.  A token pair is one random    *)
(* value; the history records which user it was issued to (minted), from   *)
(* which refresh token, and how often a refresh token was sent (uses).     *)

\* An AuthenticationException leaves the adapter.
Thrown(call, message) ==
    [Resumed(call, 0, Text(message)) EXCEPT !.passed = FALSE]

\* activeTokens.set(id, {access_token, expiresAt: Date.now() + (expires_in - 60) * 1000})
activeTokenEntry(access_token, expires_in) ==
    [access_token |-> access_token,
     expiresAt |-> DateNow + (expires_in - 60) * 1000]

\* getUser(id) up to its first await: the cached access token is used while
\* it is valid, else refreshToken(id) begins with getToken.
getUser(c, id) ==
    /\ Ready
    /\ FreeSlot(c)
    /\ last' = Awaiting("getUser", id)
    /\ calls' = [calls EXCEPT ![c] =
                    IF MapHas(activeTokens, id)
                       /\ activeTokens[id].expiresAt > DateNow
                    THEN Suspended("fetchUser", "getUser", id,
                                   [NoLocal EXCEPT
                                      !.token = activeTokens[id].access_token])
                    ELSE Suspended("getToken", "getUser", id, NoLocal)]
    /\ UNCHANGED <<seconds, millis, ticks, rand, activeStates, authTokens,
                   account_tokens, nextRow, minted, lapsed, uses,
                   limiterVars, authVars, houseVars, serviceVars, sessionVars,
                   storeVars>>

\* refreshToken after "await getToken": the SELECT has run (or failed, which
\* getToken turns into ""); the refresh token is sent to the provider.
getTokenSettled(c, ok) ==
    /\ Ready
    /\ calls[c].pc = "getToken"
    /\ LET id == calls[c].arg
           refreshToken == IF ok /\ MapHas(accounts, id) THEN accounts[id] ELSE 0
       IN IF refreshToken = 0
          THEN /\ last' = Thrown(calls[c], "Failed to get refresh token")
               /\ calls' = [calls EXCEPT ![c] = Idle]
               /\ UNCHANGED uses
          ELSE /\ Used(refreshToken) < MaxSends
               /\ last' = Resumed(calls[c], 0, NoBody)
               /\ uses' = CountUse(refreshToken)
               /\ calls' = [calls EXCEPT ![c] =
                               Suspended("refresh", "getUser", id,
                                         [NoLocal EXCEPT !.token = refreshToken])]
    /\ UNCHANGED <<seconds, millis, ticks, rand, activeStates, authTokens,
                   account_tokens, nextRow, minted, lapsed,
                   limiterVars, authVars, houseVars, serviceVars, sessionVars,
                   storeVars>>

\* refreshToken after the provider answered: a failed or unreadable answer
\* is thrown; else the new access token is cached and storeToken begins.
refreshTokenResolved(c, ok, expires_in) ==
    /\ Ready
    /\ calls[c].pc = "refresh"
    /\ LET id == calls[c].arg
           pair == rand + 1
       IN IF ~ok
          THEN /\ last' = Thrown(calls[c], "Failed to refresh token")
               /\ calls' = [calls EXCEPT ![c] = Idle]
               /\ UNCHANGED <<rand, minted, activeTokens>>
          ELSE /\ rand < MaxRand
               /\ rand' = pair
               /\ minted' = MapSet(minted, pair,
                                   [kind |-> "provider", account |-> id,
                                    from |-> calls[c].local.token])
               /\ activeTokens' = MapSet(activeTokens, id,
                                         activeTokenEntry(pair, expires_in))
               /\ last' = Resumed(calls[c], 0, NoBody)
               /\ calls' = [calls EXCEPT ![c] =
                               Suspended("storeToken", "getUser", id,
                                         [NoLocal EXCEPT !.token = pair])]
    /\ UNCHANGED accounts
    /\ UNCHANGED <<seconds, millis, ticks, activeStates, authTokens,
                   account_tokens, nextRow, lapsed, uses,
                   limiterVars, authVars, houseVars, sessionVars, storeVars>>

\* DiscordAuthenticationService.handleResponse up to its first await: the
\* code of the callback goes to the provider.
discordHandleResponse(c, id, code) ==
    /\ Ready
    /\ FreeSlot(c)
    /\ IF ~code
       THEN /\ last' = Thrown(Suspended("", "discord.handleResponse", id, NoLocal),
                              "Missing code in response")
            /\ UNCHANGED calls
       ELSE /\ last' = Awaiting("discord.handleResponse", id)
            /\ calls' = [calls EXCEPT ![c] =
                            Suspended("code", "discord.handleResponse", id,
                                      NoLocal)]
    /\ UNCHANGED <<seconds, millis, ticks, rand, activeStates, authTokens,
                   account_tokens, nextRow, minted, lapsed, uses,
                   limiterVars, authVars, houseVars, serviceVars, sessionVars,
                   storeVars>>

\* handleResponse after the provider exchanged the code and fetchUser named
\* the user: the access token is cached and storeToken begins.
codeExchanged(c, ok, expires_in) ==
    /\ Ready
    /\ calls[c].pc = "code"
    /\ LET id == calls[c].arg
           pair == rand + 1
       IN IF ~ok
          THEN /\ last' = Thrown(calls[c], "Failed to get token")
               /\ calls' = [calls EXCEPT ![c] = Idle]
               /\ UNCHANGED <<rand, minted, activeTokens>>
          ELSE /\ rand < MaxRand
               /\ rand' = pair
               /\ minted' = MapSet(minted, pair,
                                   [kind |-> "provider", account |-> id,
                                    from |-> 0])
               /\ activeTokens' = MapSet(activeTokens, id,
                                         activeTokenEntry(pair, expires_in))
               /\ last' = Resumed(calls[c], 0, NoBody)
               /\ calls' = [calls EXCEPT ![c] =
                               Suspended("storeToken", "discord.handleResponse",
                                         id, [NoLocal EXCEPT !.token = pair])]
    /\ UNCHANGED accounts
    /\ UNCHANGED <<seconds, millis, ticks, activeStates, authTokens,
                   account_tokens, nextRow, lapsed, uses,
                   limiterVars, authVars, houseVars, sessionVars, storeVars>>

\* storeToken settles: INSERT INTO accounts ... ON DUPLICATE KEY UPDATE
\* token = new.token has run, or failed.  getUser goes on to fetchUser,
\* handleResponse returns the account.
storeTokenSettled(c, ok) ==
    /\ Ready
    /\ calls[c].pc = "storeToken"
    /\ LET id == calls[c].arg
       IN IF ~ok
          THEN /\ last' = Thrown(calls[c], "Failed to store token")
               /\ calls' = [calls EXCEPT ![c] = Idle]
               /\ UNCHANGED accounts
          ELSE /\ accounts' = MapSet(accounts, id, calls[c].local.token)
               /\ last' = Resumed(calls[c], 0, NoBody)
               /\ calls' = [calls EXCEPT ![c] =
                               IF calls[c].op = "getUser"
                               THEN [calls[c] EXCEPT !.pc = "fetchUser"]
                               ELSE Idle]
    /\ UNCHANGED activeTokens
    /\ UNCHANGED <<seconds, millis, ticks, rand, activeStates, authTokens,
                   account_tokens, nextRow, minted, lapsed, uses,
                   limiterVars, authVars, houseVars, sessionVars, storeVars>>

\* getUser's fetchUser settles: the user information, or an exception.
fetchUserSettled(c, ok) ==
    /\ Ready
    /\ calls[c].pc = "fetchUser"
    /\ last' = IF ok THEN Resumed(calls[c], 0, NoBody)
                     ELSE Thrown(calls[c], "Failed to get user information")
    /\ calls' = [calls EXCEPT ![c] = Idle]
    /\ UNCHANGED <<seconds, millis, ticks, rand, activeStates, authTokens,
                   account_tokens, nextRow, minted, lapsed, uses,
                   limiterVars, authVars, houseVars, serviceVars, sessionVars,
                   storeVars>>

\* The server has just started: user 1 logged in with an earlier process,
\* the accounts table holds the refresh token of then, nothing is cached.
InitProvider ==
    /\ limiter = authPool
    /\ tokens = EmptyMap
    /\ burst = NoBurst
    /\ streak = NoStreak
    /\ minorTasks = <<>>
    /\ majorTasks = <<>>
    /\ executed = <<>>
    /\ accounts = MapSet(EmptyMap, 1, 1)
    /\ activeTokens = EmptyMap
    /\ accessLog = <<>>
    /\ signed = {}
    /\ pending = {}
    /\ ended = {}
    /\ seconds = StartSeconds
    /\ millis = 0
    /\ ticks = 0
    /\ rand = 1
    /\ activeStates = EmptyMap
    /\ authTokens = EmptyMap
    /\ account_tokens = {}
    /\ nextRow = 1
    /\ calls = [c \in Calls |-> Idle]
    /\ last = NoSegment
    /\ minted = MapSet(EmptyMap, 1,
                       [kind |-> "provider", account |-> 1, from |-> 0])
    /\ lapsed = {}
    /\ uses = EmptyMap

NextProvider ==
    \/ \E c \in Calls : getUser(c, 1)
    \/ \E c \in Calls, ok \in BOOLEAN : getTokenSettled(c, ok)
    \/ \E c \in Calls, ok \in BOOLEAN : refreshTokenResolved(c, ok, AccessTtl)
    \/ \E c \in Calls, code \in BOOLEAN : discordHandleResponse(c, 1, code)
    \/ \E c \in Calls, ok \in BOOLEAN : codeExchanged(c, ok, AccessTtl)
    \/ \E c \in Calls, ok \in BOOLEAN : storeTokenSettled(c, ok)
    \/ \E c \in Calls, ok \in BOOLEAN : fetchUserSettled(c, ok)
    \/ Pass(AccessTtl)
    \/ Return

SpecProvider == InitProvider /\ [][NextProvider]_vars

---------------------------------------------------------------------------
(* Housekeeping.  A registry is a Set of functions: it keeps the order in  *)
(* which they were added and holds none twice.  What a task does is not    *)
(* Housekeeping's business; a task returns or throws.                      *)

\* The functions the modules of the server register.
Tasks == {"cleanup", "cleanUpTokens", "cleanTokens"}

Elements(registry) == {registry[i] : i \in 1..Len(registry)}

\* Set.add
SetAdd(registry, task) ==
    IF task \in Elements(registry) THEN registry ELSE Append(registry, task)

registerMinorTask(task) ==
    /\ Ready
    /\ minorTasks' = SetAdd(minorTasks, task)
    /\ UNCHANGED <<majorTasks, executed>>
    /\ UNCHANGED <<limiterVars, authVars, serviceVars, sessionVars, storeVars>>
    /\ UNCHANGED <<seconds, millis, ticks, rand, activeStates, authTokens,
                   account_tokens, nextRow, calls, last, minted, lapsed, uses>>

registerMajorTask(task) ==
    /\ Ready
    /\ majorTasks' = SetAdd(majorTasks, task)
    /\ UNCHANGED <<minorTasks, executed>>
    /\ UNCHANGED <<limiterVars, authVars, serviceVars, sessionVars, storeVars>>
    /\ UNCHANGED <<seconds, millis, ticks, rand, activeStates, authTokens,
                   account_tokens, nextRow, calls, last, minted, lapsed, uses>>

\* registry.forEach(task => task()): the tasks are called in order; the
\* first one that throws ends the loop, the exception leaves forEach.
forEach(registry, failing) ==
    LET thrown == {i \in 1..Len(registry) : registry[i] \in failing}
    IN IF thrown = {} THEN registry
       ELSE SubSeq(registry, 1, CHOOSE i \in thrown : \A j \in thrown : i <= j)

\* One firing of a timer of the constructor: executeTasks on the registry of
\* that name.  The tasks of failing throw in this run.
executeTasks(name, failing) ==
    /\ Ready
    /\ LET registry == IF name = "minor" THEN minorTasks ELSE majorTasks
       IN /\ executed' = forEach(registry, failing)
          /\ last' = [NoSegment EXCEPT !.op = "executeTasks", !.arg = name,
                                       !.phase = "call",
                                       !.passed = Elements(registry) \cap failing = {}]
    /\ UNCHANGED <<minorTasks, majorTasks>>
    /\ UNCHANGED <<limiterVars, authVars, serviceVars, sessionVars, storeVars>>
    /\ UNCHANGED <<seconds, millis, ticks, rand, activeStates, authTokens,
                   account_tokens, nextRow, calls, minted, lapsed, uses>>

\* Nothing catches what executeTasks throws in the timer's callback: the
\* runtime may end the process on the uncaught exception, and no timer fires
\* again.
uncaughtException ==
    /\ last.op = "executeTasks" /\ ~last.passed /\ last.phase = "call"
    /\ last' = [last EXCEPT !.phase = "exit"]
    /\ UNCHANGED <<limiterVars, authVars, houseVars, serviceVars, sessionVars, storeVars>>
    /\ UNCHANGED <<seconds, millis, ticks, rand, activeStates, authTokens,
                   account_tokens, nextRow, calls, minted, lapsed, uses>>

InitHouse == Init

NextHouse ==
    \/ \E task \in Tasks : registerMinorTask(task)
    \/ \E task \in Tasks : registerMajorTask(task)
    \/ \E name \in {"minor", "major"}, failing \in SUBSET Tasks :
          executeTasks(name, failing)
    \/ uncaughtException
    \/ last.phase # "exit" /\ Return

SpecHouse == InitHouse /\ [][NextHouse]_vars

---------------------------------------------------------------------------
(* Claims about the login handshake, checked under Spec. *)

Issued(kind) == {v \in DOMAIN minted : minted[v].kind = kind}

InFlight(pc, value) == {c \in Calls : calls[c].pc = pc /\ calls[c].arg = value}

\* C1: a hand-off token passes the redemption of handleInitialToken at most
\* once, whatever calls and sweeps are interleaved: once it has passed it is
\* gone from the table, every call that does not pass is answered 401, and a
\* call for an issued token fails only if the token was redeemed before or
\* its deadline has passed.
C1_HandoffRedeemedOnce ==
    /\ \A h \in Issued("handoff") :
          /\ Used(h) <= 1
          /\ Used(h) = 1 => ~MapHas(authTokens, h)
          /\ Cardinality(InFlight("insert", h)) <= Used(h)
    /\ (last.op = "handleInitialToken" /\ last.phase = "call" /\ last.arg # 0
            /\ ~last.passed)
         => /\ last.status = 401
            /\ last.arg \in Issued("handoff")
                 => Used(last.arg) = 1 \/ last.arg \in lapsed

\* C1 witness: one call for a hand-off token is suspended in registerDevice
\* while a second call for the same, unexpired token has been answered 401.
C1_Witness ==
    /\ last.op = "handleInitialToken" /\ last.status = 401
    /\ last.arg \notin lapsed
    /\ InFlight("insert", last.arg) # {}

\* C3: a CSRF state passes handleResponse at most once: once matched it is
\* gone from the table, only the call that matched it invokes the provider
\* exchange, every other call is answered 400, and a call echoing an issued
\* state fails only if the state was consumed before or its deadline has
\* passed.
C3_StateConsumedOnce ==
    /\ \A s \in Issued("state") :
          /\ Used(s) <= 1
          /\ Used(s) = 1 => ~MapHas(activeStates, s)
          /\ Cardinality(InFlight("exchange", s)) <= Used(s)
    /\ (last.op = "handleResponse" /\ last.phase = "call" /\ ~last.passed)
         => /\ last.status = 400
            /\ last.arg \in Issued("state")
                 => Used(last.arg) = 1 \/ last.arg \in lapsed

\* C3 witness: one call is suspended in the provider exchange while a second
\* call echoing the same, unexpired state has been answered 400.
C3_Witness ==
    /\ last.op = "handleResponse" /\ last.status = 400
    /\ last.arg \notin lapsed
    /\ InFlight("exchange", last.arg) # {}

\* C4: a handleResponse call for a CSRF state whose deadline has passed is
\* answered 400 and a handleInitialToken call for a hand-off token whose
\* deadline has passed is answered 401, and neither passes, whether the
\* entry is still in its table or a sweep has removed it.
C4_ExpiredAlwaysFails ==
    (last.phase = "call" /\ last.arg \in lapsed)
      => /\ ~last.passed
         /\ last.op = "handleResponse" => last.status = 400
         /\ last.op = "handleInitialToken" => last.status = 401

\* C4 witness: a hand-off token past its deadline and never swept has been
\* presented and answered 401, while a CSRF state past its deadline is still
\* in its table too.
C4_Witness ==
    /\ last.op = "handleInitialToken" /\ last.status = 401
    /\ last.arg \in lapsed /\ MapHas(authTokens, last.arg)
    /\ \E s \in lapsed : MapHas(activeStates, s)

\* C10: when handleInitialToken answers 200 the refresh token it returns is
\* held by a Device row, and when the Store did not keep the row it answers
\* 500 without a token.
C10_ReturnedTokenIsStored ==
    (last.op = "handleInitialToken" /\ last.phase = "resume")
      => \/ /\ last.status = 200
            /\ \E row \in account_tokens : row.token = last.body.token
         \/ /\ last.status = 500
            /\ last.body.token = 0

---------------------------------------------------------------------------
(* Claims about the TokenBucket, checked under SpecBucket. *)

\* C5: from a fresh or fully refilled key, consume(key, 1) calls at one
\* instant return true until C were granted and false from then on, and at
\* the instant 1/R seconds after such a burst emptied the key, with nothing
\* consumed in between, one more consume(key, 1) returns true and the next
\* returns false.
C5_BurstThenOnePerPeriod ==
    /\ \A k \in Addresses :
          /\ burst[k].kind = "full" => burst[k].granted <= limiter.capacity
          /\ (burst[k].kind = "drained"
                /\ DateNow = burst[k].at + limiter.period)
               => burst[k].granted <= 1
    /\ (last.op = "consume" /\ last.arg = 1 /\ ~last.passed)
         => /\ burst[last.ip].kind = "full"
                 => burst[last.ip].granted = limiter.capacity
            /\ (burst[last.ip].kind = "drained"
                  /\ DateNow = burst[last.ip].at + limiter.period)
                 => burst[last.ip].granted = 1

\* C5 witness: 1/R seconds after a burst of C emptied the key, one
\* consume(key, 1) was granted and the next has just returned false.
C5_Witness ==
    /\ last.op = "consume" /\ last.arg = 1 /\ ~last.passed
    /\ burst[last.ip].kind = "drained"
    /\ DateNow = burst[last.ip].at + limiter.period
    /\ burst[last.ip].granted = 1

---------------------------------------------------------------------------
(* Claims about the authentication checks, checked under SpecAuth. *)

\* The number of wrong user tokens verifyRequest admits, with no time
\* passing, from a bucket that holds avail units: one per whole token.
UserOnset(avail) == avail \div limiter.period

\* C6: an authService call answered 401 (a Bearer value of the secret's
\* length that differs from the secret) has removed 5 tokens from the
\* caller's bucket, whatever the bucket held before, and a verifyRequest
\* call answered 401 has removed 1.
C6_ServicePenaltyIsFive ==
    /\ (last.op = "authService" /\ last.status = 401)
         => Available(last.ip) = streak.before - Units(5)
    /\ (last.op = "verifyRequest" /\ last.status = 401)
         => Available(last.ip) = streak.before - Units(1)

\* C7: a run of wrong service tokens of one caller at one instant is
\* admitted at most as often as a run of wrong user tokens from the bucket
\* state it began in, hence at most capacity times, before the caller gets
\* 429.
C7_ServiceOnsetNotLater ==
    streak.kind = "service"
      => /\ streak.admitted <= UserOnset(streak.start)
         /\ streak.admitted <= limiter.capacity

\* C8: an admitted verifyRequest call with authentication required and no
\* Bearer credential is answered 401, the status of an invalid credential.
C8_MissingCredentialIs401 ==
    (last.op = "verifyRequest" /\ last.ip # "" /\ last.status # 429
        /\ last.force /\ last.auth.scheme # "Bearer")
      => last.status = 401

---------------------------------------------------------------------------
(* Claims about POST /token, checked under SpecSession. *)

\* The access tokens a later answer of POST /token for the same Device has
\* replaced.
Superseded ==
    {accessLog[i].access_token :
        i \in {n \in 1..Len(accessLog) :
                  /\ accessLog[n].access_token # NoAccess
                  /\ \E m \in (n + 1)..Len(accessLog) :
                        /\ accessLog[m].device = accessLog[n].device
                        /\ accessLog[m].access_token
                               # accessLog[n].access_token}}

\* C2: a refresh token held by a Device rotates it at most once and is then
\* held by no Device; the handleRefreshToken call whose UPDATE rotated the
\* Device is answered 200 with the new refresh token, different from the
\* old one, and every other call is answered 401 'Invalid token'.
C2_OneCallObtainsNewToken ==
    /\ \A t \in Issued("refresh") :
          /\ Used(t) <= 1
          /\ Used(t) = 1 => \A row \in account_tokens : row.token # t
    /\ (last.op = "handleRefreshToken" /\ last.arg # 0 /\ last.status # 0)
         => IF last.pc \in {"select", "getUser", "sign"}
            THEN /\ last.status = 200
                 /\ last.body.token # last.arg
                 /\ last.body.token \in Issued("refresh")
            ELSE /\ last.status = 401
                 /\ last.body.text = "Invalid token"

\* C9: verifyRequest accepts no access token that a later successful
\* POST /token for the same Device has replaced.
C9_OldAccessTokenRejected ==
    (last.op = "verifyRequest" /\ last.passed
        /\ last.auth.scheme = "Bearer")
      => last.auth.credentials \notin Superseded


\* C25: a handleRefreshToken call that is answered with an error, 401 or
\* 500, has not rotated a Device: it was answered when the UPDATE of
\* refreshDevice settled without a match, never after the UPDATE had put a
\* new refresh token in place of the one the client holds.
C25_FailedRefreshIsRetryable ==
    (last.op = "handleRefreshToken" /\ last.status \in {401, 500})
      => last.pc = "update"

\* C30: the sweep of the in-memory tables removes exactly the CSRF states
\* and hand-off tokens whose deadline lies before the clock, every entry it
\* removes is one the deadline test of the redemption rejects at that
\* instant, and every other entry stays as it is; the sweep of the Store
\* removes only Devices, only ones whose expiry lies before the clock, and
\* the Devices the UPDATE of refreshDevice matches are the same before and
\* after it, for every token.
C30_SweepsSpareWhatIsValid ==
    [][/\ cleanUpTokens
          => /\ DOMAIN activeStates'
                  = {s \in DOMAIN activeStates :
                        activeStates[s].timeout >= DateNow}
             /\ DOMAIN authTokens'
                  = {a \in DOMAIN authTokens :
                        authTokens[a].expiresAt >= DateNow}
             /\ \A s \in DOMAIN activeStates :
                   IF stateExpired(activeStates[s])
                   THEN s \notin DOMAIN activeStates'
                   ELSE /\ s \in DOMAIN activeStates'
                        /\ activeStates'[s] = activeStates[s]
             /\ \A a \in DOMAIN authTokens :
                   IF handoffExpired(authTokens[a])
                   THEN a \notin DOMAIN authTokens'
                   ELSE /\ a \in DOMAIN authTokens'
                        /\ authTokens'[a] = authTokens[a]
       /\ cleanTokens
          => /\ account_tokens' \subseteq account_tokens
             /\ \A row \in account_tokens \ account_tokens' :
                   /\ row.expires_at < UNIX_TIMESTAMP
                   /\ row \notin Matching(row.token)
             /\ \A row \in account_tokens :
                   Matching(row.token)' = Matching(row.token)]_vars

\* C30 witness: at the very deadline of the CSRF state the sweep has removed
\* the hand-off token, which is past its deadline, and kept the state, and
\* the expired Device is still in the Store.
C30_Witness ==
    /\ MapHas(activeStates, Unknown + 1)
    /\ activeStates[Unknown + 1].timeout = DateNow
    /\ ~MapHas(authTokens, Unknown + 2)
    /\ \E row \in account_tokens : row.expires_at = UNIX_TIMESTAMP

---------------------------------------------------------------------------
(* Claims about the handlers' input checks, checked under Spec. *)

\* C14: handleLogin answers 400 and leaves the CSRF-state table as it was
\* when clientState or the redirect target reaches the length cap or the
\* target is not in the allow-list; otherwise it adds exactly one entry
\* under a state never issued before, with the deadline 15 minutes from now
\* and the given clientState and target, and answers with a redirect that
\* carries that state.
C14_LoginChecksInput ==
    [][(last.op = "none" /\ last'.op = "handleLogin")
         => LET q == last'.query IN
            IF \/ Len(q.state) >= LengthCap
               \/ Len(q.redirect) >= LengthCap
               \/ q.redirect \notin allowedHosts
            THEN /\ last'.status = 400
                 /\ activeStates' = activeStates
            ELSE \E s \in DOMAIN activeStates' \ DOMAIN activeStates :
                    /\ DOMAIN activeStates' = DOMAIN activeStates \cup {s}
                    /\ s \notin DOMAIN minted
                    /\ \A k \in DOMAIN activeStates :
                          activeStates'[k] = activeStates[k]
                    /\ activeStates'[s] =
                          [timeout |-> DateNow + 15 * 60 * 1000,
                           clientState |-> q.state, redirect |-> q.redirect]
                    /\ last'.status = 302
                    /\ last'.body.token = s]_vars

\* C14 witness: a second login was admitted while the state of the first
\* is still in the table.
C14_Witness ==
    /\ last.op = "handleLogin" /\ last.status = 302
    /\ last.query.state = "abc123"
    /\ Cardinality(DOMAIN activeStates) >= 2

\* C15: a handleResponse call whose echoed state is absent, unknown or past
\* its deadline is answered 400 and changes nothing: both tables stay as
\* they were and no call is left waiting for the provider exchange.
C15_BadStateHasNoEffect ==
    [][(last.op = "none" /\ last'.op = "handleResponse"
            /\ last'.phase = "call"
            /\ (\/ last'.arg = 0
                \/ ~MapHas(activeStates, last'.arg)
                \/ activeStates[last'.arg].timeout < DateNow))
         => /\ last'.status = 400
            /\ activeStates' = activeStates
            /\ authTokens' = authTokens
            /\ calls' = calls]_vars

\* C15 witness: a state past its deadline, still in the table, has been
\* echoed and answered 400 while another call waits for the provider.
C15_Witness ==
    /\ last.op = "handleResponse" /\ last.status = 400
    /\ MapHas(activeStates, last.arg)
    /\ \E c \in Calls : calls[c].pc = "exchange"

\* C16: when the provider exchange of a handleResponse call fails, the call
\* is answered 422 with the provider's message and without a redirect
\* target, no hand-off token is added, and the state the call matched is
\* not in the table then or at any later time.
C16_ExchangeFailureIs422 ==
    [][/\ \A c \in Calls, message \in ProviderErrors :
             exchangeRejected(c, message)
                => /\ last'.status = 422
                   /\ last'.body.text = message
                   /\ last'.body.target = ""
                   /\ last'.body.token = 0
                   /\ authTokens' = authTokens
                   /\ ~MapHas(activeStates', calls[c].arg)
       /\ \A s \in DOMAIN uses : ~MapHas(activeStates', s)]_vars

\* C16 witness: an exchange has failed and the state it had matched has
\* been echoed again and answered 400.
C16_Witness ==
    /\ last.op = "handleResponse" /\ last.status = 400
    /\ Used(last.arg) = 1
    /\ Issued("handoff") = {}
    /\ \A c \in Calls : calls[c].pc = "idle"

\* C17: handleInitialToken answers 401 'Invalid token' for a token that is
\* not in the hand-off table and 401 'Token expired, please try again' for
\* one in the table past its deadline, and in both cases leaves the table
\* as it was and starts no Device registration; a token in the table not
\* past its deadline is deleted and its call goes on to register a Device.
C17_HandoffErrorsLeaveTable ==
    [][(last.op = "none" /\ last'.op = "handleInitialToken"
            /\ last'.phase = "call" /\ last'.arg # 0)
         => LET token == last'.arg IN
            IF ~MapHas(authTokens, token)
            THEN /\ last'.status = 401
                 /\ last'.body.text = "Invalid token"
                 /\ authTokens' = authTokens
                 /\ calls' = calls
                 /\ account_tokens' = account_tokens
            ELSE IF authTokens[token].expiresAt < DateNow
            THEN /\ last'.status = 401
                 /\ last'.body.text = "Token expired, please try again"
                 /\ authTokens' = authTokens
                 /\ calls' = calls
                 /\ account_tokens' = account_tokens
            ELSE /\ last'.status = 0
                 /\ DOMAIN authTokens' = DOMAIN authTokens \ {token}
                 /\ \E c \in Calls :
                       /\ calls[c].pc = "idle"
                       /\ calls'[c].pc = "insert"
                       /\ calls'[c].arg = token
                       /\ calls'[c].local.id = authTokens[token].id]_vars

\* C17 witness: a token one millisecond past its deadline, still in the
\* table, has been answered 'Token expired, please try again'.
C17_Witness ==
    /\ last.op = "handleInitialToken"
    /\ last.body.text = "Token expired, please try again"
    /\ MapHas(authTokens, last.arg)
    /\ authTokens[last.arg].expiresAt + 1 = DateNow

---------------------------------------------------------------------------
(* Claims about revocation, checked under SpecStore and SpecRevoke. *)

\* C11: a handleRefreshToken call that starts after POST /revoke answered
\* 200 for its token, or after POST /logout answered 200 for the account
\* whose Device held its token, fails with 401: it never gets past the two
\* statements of refreshDevice.
C11_EndedTokenRejected ==
    \A c \in Calls :
        (calls[c].op = "handleRefreshToken" /\ calls[c].local.after)
            => calls[c].pc \in {"update", "select"}

\* C12: revoke with a token always answers 200 and itself changes no
\* Device; when its DELETE settles, at most the one Device holding the token
\* is gone and every other Device is as it was; running the DELETE again on
\* the resulting table changes nothing.
C12_RevokeIsIdempotent ==
    [][/\ (last.op = "none" /\ last'.op = "revoke" /\ last'.arg # 0)
          => /\ last'.status = 200
             /\ account_tokens' = account_tokens
       /\ (last.op = "none" /\ last'.op = "revokeDevice")
          => LET gone == account_tokens \ account_tokens' IN
             /\ account_tokens' \subseteq account_tokens
             /\ Cardinality(gone) <= 1
             /\ \A row \in gone : row.token = last'.arg
             /\ last'.passed
                  => /\ \A row \in account_tokens' : row.token # last'.arg
                     /\ DeleteWhereToken(account_tokens', last'.arg)
                          = account_tokens']_vars

\* C12 witness: revoke is answered 200 for a token whose Device an earlier
\* revoke has removed, while the other two Devices are still there.
C12_Witness ==
    /\ last.op = "revoke" /\ last.status = 200
    /\ last.arg \in Earlier /\ Used(last.arg) = 0 /\ ticks = 0
    /\ \A row \in account_tokens : row.token # last.arg
    /\ Cardinality(account_tokens) = 2

\* C13: when the DELETE of logout has run, no Device of the account remains,
\* no token the account held is held by any Device, and the Devices of the
\* other accounts are as they were; when the DELETE of revoke has run, only
\* the Device that held the given token is gone.
C13_LogoutRemovesAllDevices ==
    [][/\ (last.op = "none" /\ last'.op = "logoutDevices" /\ last'.passed)
          => /\ \A row \in account_tokens' : row.user # last'.arg
             /\ \A row \in account_tokens :
                   row.user = last'.arg
                      => \A kept \in account_tokens' : kept.token # row.token
             /\ {row \in account_tokens : row.user # last'.arg}
                  = account_tokens'
       /\ (last.op = "none" /\ last'.op = "revokeDevice" /\ last'.passed)
          => account_tokens'
                = {row \in account_tokens : row.token # last'.arg}]_vars

\* C13 witness: the DELETE of logout for account 1 has run while both of its
\* Devices were there; only the Device of account 2 is left.
C13_Witness ==
    /\ last.op = "logoutDevices" /\ last.passed /\ last.arg = 1
    /\ ended = {101, 102} /\ rand = 0 /\ ticks = 0
    /\ Cardinality(account_tokens) = 1

\* C18: when the UPDATE of refreshDevice settles for a token that was never
\* issued, that a refresh has rotated away, whose Device a revoke or logout
\* has removed, or whose Device has expired, handleRefreshToken answers 401
\* with the text 'Invalid token' and nothing else, the same in all four
\* cases, and no Device changes.
C18_RefreshFailuresAlike ==
    [][(last.op = "none" /\ last'.op = "handleRefreshToken"
            /\ last'.phase = "resume" /\ last'.pc = "update")
         => LET token == last'.arg
                holders == {row \in account_tokens : row.token = token}
            IN (\/ token \notin Issued("refresh")
                \/ Used(token) >= 1
                \/ token \in ended /\ holders = {}
                \/ \E row \in holders : row.expires_at <= UNIX_TIMESTAMP)
                  => /\ last'.status = 401
                     /\ last'.body = Text("Invalid token")
                     /\ account_tokens' = account_tokens]_vars

\* C18 witness: a token whose Device a revoke has removed, neither rotated
\* nor expired, has been presented and answered 401.
C18_Witness ==
    /\ last.op = "handleRefreshToken" /\ last.status = 401
    /\ last.arg \in ended /\ last.arg \in Issued("refresh")
    /\ Used(last.arg) = 0 /\ ticks = 0

---------------------------------------------------------------------------
(* Claims about the access-token functions, checked under SpecToken. *)

\* C19: verifyToken applied to a token that generateToken produced for a
\* user and an account id (through buildAPIUser) resolves with that id and
\* the user's service, user_id, username and avatar_url as long as fewer
\* than 15 minutes have passed since the token was signed, and rejects from
\* then on.
C19_TokenRoundTrip ==
    (last.op = "verifyToken" /\ last.auth.credentials \in signed
        /\ last.auth.credentials.type = "user")
      => LET token == last.auth.credentials IN
         \E user \in TokenUsers, id \in Accounts :
            /\ token.id = prettifyId(id)
            /\ token.user_id = user.user_id
            /\ token.username = user.username
            /\ token.avatar_url = user.avatar_url
            /\ IF UNIX_TIMESTAMP < token.iat + 15 * 60
               THEN /\ last.passed
                    /\ last.user = [id |-> id, service |-> "discord",
                                    user_id |-> user.user_id,
                                    username |-> user.username,
                                    avatar_url |-> user.avatar_url]
               ELSE ~last.passed /\ last.user = NoUser

\* C19 witness: a token signed for the user of one account and the id of
\* another has been verified one second before its expiry.
C19_Witness ==
    /\ last.op = "verifyToken" /\ last.passed
    /\ last.auth.credentials \in signed
    /\ UNIX_TIMESTAMP = last.auth.credentials.iat + AccessTtl - 1
    /\ last.user.id = 1 /\ last.user.username = "bob"

\* C20: verifyToken resolves exactly for the tokens that carry the server's
\* signature, have not expired, are of type 'user', have strings for id,
\* service, user_id, username and avatar_url and an id that decodes; it then
\* resolves with the whole identity, and otherwise with nothing; and
\* verifyRequest answers every token that verifyToken rejects, a valid
\* 'external' token included, with 401 'Unauthorized' and nothing else.
C20_VerifyFailsClosed ==
    LET token == last.auth.credentials
        sound == /\ token.key = "private.key"
                 /\ UNIX_TIMESTAMP < token.exp
                 /\ token.type = "user"
                 /\ Len(token.id) = 2 /\ token.id[1] = "sqid"
                 /\ token.id[2] # 0
                 /\ \A claim \in {token.service, token.user_id,
                                   token.username, token.avatar_url} :
                       claim # NotAString
    IN /\ last.op = "verifyToken"
          => IF sound
             THEN /\ last.passed
                  /\ last.user = [id |-> token.id[2],
                                  service |-> token.service,
                                  user_id |-> token.user_id,
                                  username |-> token.username,
                                  avatar_url |-> token.avatar_url]
             ELSE /\ ~last.passed
                  /\ last.user = NoUser
                  /\ last.arg = 0
       /\ (last.op = "verifyRequest" /\ last.auth.scheme = "Bearer")
          => IF sound
             THEN last.passed /\ last.status = 0
             ELSE /\ ~last.passed
                  /\ last.status = 401
                  /\ last.body = Text("Unauthorized")
                  /\ last.user = NoUser

\* C20 witness: verifyRequest has answered 401 to an unexpired token of
\* type 'external' that the server signed.
C20_Witness ==
    /\ last.op = "verifyRequest" /\ last.status = 401
    /\ last.auth.credentials \in signed
    /\ last.auth.credentials.type = "external"
    /\ UNIX_TIMESTAMP < last.auth.credentials.exp

\* C21: every token that handleExternalToken issues for a host has type
\* 'external', an aud claim equal to that host and a lifetime of 60 seconds
\* from now; it is issued only to a caller whose Bearer token verifyToken
\* accepts, and carries that caller's identity; a third party that checks
\* aud against its own, different host rejects it, and the named host
\* accepts it.
C21_ExternalTokenBoundToHost ==
    (last.op = "handleExternalToken" /\ last.status = 200)
      => LET token == last.body.access_token
             caller == verifyToken(last.auth.credentials)
         IN /\ token.type = "external"
            /\ last.arg # "" /\ token.aud = last.arg
            /\ token.iat = UNIX_TIMESTAMP /\ token.exp = token.iat + 60
            /\ last.auth.scheme = "Bearer"
            /\ caller.ok /\ caller.user = last.user
            /\ token.id = prettifyId(caller.id)
            /\ token.user_id = caller.user.user_id
            /\ verifyAtHost(token, last.arg)
            /\ \A host \in Hosts \ {last.arg} : ~verifyAtHost(token, host)

\* C21 witness: an external token for play.example has been issued to the
\* user of account 2.
C21_Witness ==
    /\ last.op = "handleExternalToken" /\ last.status = 200
    /\ last.arg = "play.example" /\ last.user.id = 2

---------------------------------------------------------------------------
(* Claims about the Store that tells devices apart, under SpecDevice. *)

---------------------------------------------------------------------------
(* Claims about the methods of a TokenBucket, checked under SpecBucket. *)

\* C26: a call of canConsume, of timeUntilRefill or of a consume that
\* returns false leaves the map of the bucket as it was; a consume(key, n)
\* that returns true writes the entry of key and leaves every other entry
\* as it was; and what consume and canConsume return is decided by the
\* entry of their own key and the clock, so that calls for one key return
\* the same whatever was called for another.
C26_KeysDoNotInteract ==
    [][\A key \in Addresses, n \in Sizes :
          /\ callCanConsume(key, n)
                => /\ tokens' = tokens
                   /\ last'.passed = (tokensUsed(key) + Units(n) <= DateNow)
          /\ callTimeUntilRefill(key, n) => tokens' = tokens
          /\ callConsume(key, n)
                => /\ last'.passed = (tokensUsed(key) + Units(n) <= DateNow)
                   /\ ~last'.passed => tokens' = tokens
                   /\ last'.passed
                        => /\ DOMAIN tokens' = DOMAIN tokens \cup {key}
                           /\ \A other \in DOMAIN tokens \ {key} :
                                 tokens'[other] = tokens[other]]_vars

\* C26 witness: consume was granted for one key while the other key has an
\* entry of its own, written at another instant.
C26_Witness ==
    /\ last.op = "consume" /\ last.passed
    /\ DOMAIN tokens = Addresses
    /\ \E other \in Addresses \ {last.ip} :
          tokens[other] # tokens[last.ip]

\* C27: over an interval of d milliseconds that begins in any state of the
\* bucket, a key that was idle for long included, the tokens consume
\* grants to a key number at most capacity + refillRate * d, whatever the
\* sweep does in between.
C27_AdmittedWithinInterval ==
    \A key \in Addresses :
       Units(Used(key))
          <= Units(limiter.capacity) + (DateNow - StartSeconds * 1000)

\* C27 witness: a key that had been idle for three refills at the beginning
\* of the interval has been granted capacity + 1 tokens, one period after
\* the interval began.
C27_Witness ==
    /\ last.op = "consume" /\ last.passed
    /\ Used(last.ip) = limiter.capacity + 1
    /\ DateNow = StartSeconds * 1000 + limiter.period
    /\ burst[last.ip].kind = "full"

\* C28: the sweep of the bucket removes exactly the entries whose counter
\* is below the clock's tokens less the capacity and leaves the others as
\* they are; and for every key and every request size up to the capacity,
\* canConsume, timeUntilRefill and consume return after the sweep what they
\* returned before it, and consume leaves the same entry for its key.  As
\* this holds in every state the bucket comes to, it holds for every call
\* made later.
C28_CleanupUnobservable ==
    [][cleanup
         => /\ DOMAIN tokens'
                 = {key \in DOMAIN tokens :
                       tokens[key] >= totalTokens - Units(limiter.capacity)}
            /\ \A key \in DOMAIN tokens' : tokens'[key] = tokens[key]
            /\ \A key \in Addresses, n \in 1..limiter.capacity :
                  /\ canConsume(key, n)' = canConsume(key, n)
                  /\ timeUntilRefill(key, n)' = timeUntilRefill(key, n)
                  /\ consume(key, n)'.ok = consume(key, n).ok
                  /\ consume(key, n).ok
                       => consume(key, n)'.tokens[key]
                             = consume(key, n).tokens[key]]_vars

\* C28 witness: the key was granted two tokens within the interval and,
\* after a refill, the sweep has removed the entry consume had written.
C28_Witness ==
    /\ Used("10.0.0.1") = 2
    /\ ~MapHas(tokens, "10.0.0.1")
    /\ ticks = 1

\* C29: for every key and every request size up to the capacity,
\* timeUntilRefill returns 0 exactly when canConsume is true; when it
\* returns a wait w above 0 and time passes with no call for the key,
\* consume and canConsume succeed if at least w milliseconds have passed
\* and fail if fewer have; and a 429 of rateLimit carries as Retry-After
\* the wait for the tokens it asked for, rounded up to whole seconds.
C29_WaitIsExact ==
    [][\A key \in Addresses, n \in 1..limiter.capacity :
             /\ (timeUntilRefill(key, n) = 0) = canConsume(key, n)
             /\ (timeUntilRefill(key, n)' = 0) = canConsume(key, n)'
             /\ \A ms \in BucketSteps :
                   (Elapse(ms) /\ timeUntilRefill(key, n) > 0)
                     => /\ consume(key, n)'.ok
                            = (ms >= timeUntilRefill(key, n))
                        /\ canConsume(key, n)'
                            = (ms >= timeUntilRefill(key, n))
             /\ (last'.status = 429 /\ last'.ip = key /\ last'.arg = n)
                   => LET wait == timeUntilRefill(key, n)'
                      IN /\ wait > 0
                         /\ last'.body.retryAfter * 1000 >= wait
                         /\ (last'.body.retryAfter - 1) * 1000 < wait]_vars

\* C29 witness: a period after the interval began, rateLimit has refused
\* two tokens to a key that holds one, with the wait of one more period.
C29_Witness ==
    /\ last.op = "rateLimit" /\ last.status = 429 /\ last.arg = 2
    /\ timeUntilRefill(last.ip, 2) = limiter.period
    /\ last.body.retryAfter * 1000 = limiter.period
    /\ ticks = 1

---------------------------------------------------------------------------
(* Claims about verifyRequest and the bucket, checked under SpecAuth. *)

\* C22: a verifyRequest call from an address whose bucket holds less than
\* one token is answered 429 with a Retry-After of at least 1 second;
\* otherwise a call without Bearer credential that does not require
\* authentication resolves with no user, a call with a token that
\* verifyToken accepts resolves with the identity of the token, and a call
\* with a Bearer token that verifyToken rejects is answered 401; the last
\* removes exactly one token from the caller's bucket and touches no other
\* entry, and every other call leaves all buckets as they were.
C22_VerifyRequestChargesFailures ==
    [][\A force \in BOOLEAN, ip \in Addresses, h \in UserHeaders :
          verifyRequest(force, ip, h)
            => IF Available(ip) < Units(1)
               THEN /\ last'.status = 429 /\ ~last'.passed
                    /\ last'.body.retryAfter >= 1
                    /\ tokens' = tokens
               ELSE IF h.scheme # "Bearer"
               THEN /\ ~force => /\ last'.passed /\ last'.status = 0
                                 /\ last'.user = NoUser /\ last'.arg = 0
                    /\ tokens' = tokens
               ELSE IF verifyToken(h.credentials).ok
               THEN /\ last'.passed /\ last'.status = 0
                    /\ last'.user = verifyToken(h.credentials).user
                    /\ tokens' = tokens
               ELSE /\ last'.status = 401 /\ ~last'.passed
                    /\ Available(ip)' = Available(ip) - Units(1)
                    /\ \A other \in Addresses \ {ip} :
                          /\ MapHas(tokens', other) = MapHas(tokens, other)
                          /\ tokensUsed(other)' = tokensUsed(other)]_vars

\* C22 witness: a caller whose bucket was empty has presented a Bearer
\* token and been told to retry after five seconds.
C22_Witness ==
    /\ last.op = "verifyRequest" /\ last.status = 429
    /\ last.auth.scheme = "Bearer" /\ last.body.retryAfter = 5


-----------------------------------------------------------------------------
\* Claims about the handshake under fair sweeping (SpecSweep).

\* The clock of the model has stopped before the deadline was passed.
ClockRanOut(deadline) == ticks = MaxTicks /\ ~(deadline < DateNow)

\* C31: when the sweep keeps running and time keeps passing, every CSRF
\* state and every hand-off token that is in its table is eventually gone
\* from it, redeemed or swept after its deadline (as far as the clock of the
\* model reaches: an entry may remain only if the clock stopped before its
\* deadline); this holds as well for an entry that a call tried to redeem
\* after the deadline, which leaves it in the table.
C31_EntriesEventuallyRemoved ==
    \A k \in 1..MaxRand :
        /\ MapHas(activeStates, k)
              ~> (\/ ~MapHas(activeStates, k)
                  \/ ClockRanOut(activeStates[k].timeout))
        /\ MapHas(authTokens, k)
              ~> (\/ ~MapHas(authTokens, k)
                  \/ ClockRanOut(authTokens[k].expiresAt))

\* C31 witness: a CSRF state lapsed in the table, a call that presented it
\* after the deadline was answered 400, and the sweep has since removed it
\* unredeemed.
C31_Witness ==
    \E k \in lapsed :
        /\ k \in Issued("state") /\ ~MapHas(activeStates, k) /\ Used(k) = 0
        /\ last.op = "handleResponse" /\ last.arg = k /\ last.status = 400


-----------------------------------------------------------------------------
\* Claims about the course of a login attempt (Spec).

\* The hand-off tokens minted by the exchange that CSRF state s had opened,
\* and the Devices registered by redeeming them.
HandoffOf(s) ==
    {h \in DOMAIN minted : minted[h].kind = "handoff" /\ minted[h].from = s}

DeviceOf(s) ==
    LET handoffs == HandoffOf(s)
    IN {row \in account_tokens :
           /\ row.token \in DOMAIN minted
           /\ minted[row.token].from \in handoffs}

\* How far the attempt that handleLogin opened with state s has come:
\* 0 not begun, 1 redirected to the provider, 2 callback received (the state
\* was consumed), 3 hand-off token issued, 4 hand-off token redeemed,
\* 5 Device registered.
Stage(s) ==
    IF ~(s \in DOMAIN minted /\ minted[s].kind = "state") THEN 0
    ELSE IF Used(s) = 0 THEN 1
    ELSE LET handoffs == HandoffOf(s)
         IN IF handoffs = {} THEN 2
            ELSE IF \A h \in handoffs : Used(h) = 0 THEN 3
            ELSE IF DeviceOf(s) = {} THEN 4
            ELSE 5

\* The attempt is over without a Device: its state or its hand-off token
\* lapsed unused, its exchange was rejected, or its INSERT failed.
Over(s) ==
    LET stage == Stage(s)
    IN CASE stage = 1 -> s \in lapsed
         [] stage = 2 -> InFlight("exchange", s) = {}
         [] stage = 3 -> HandoffOf(s) \subseteq lapsed
         [] stage = 4 -> \A h \in HandoffOf(s) : InFlight("insert", h) = {}
         [] OTHER -> FALSE

\* C32: a login attempt only moves forward, one stage at a time: its state
\* is consumed only while unexpired, the exchange runs only for a consumed
\* state, a hand-off token is minted only by an exchange that resolved, a
\* Device is registered only by the redemption of the hand-off token; and an
\* attempt that expired, was rejected or failed stays where it is.
C32_AttemptMovesForward ==
    [][\/ UNCHANGED <<minted, uses, lapsed, calls, account_tokens>>
       \/ \A s \in Issued("state")' :
             LET before == Stage(s)
                 after == Stage(s)'
             IN /\ after >= before
                /\ after <= before + 1
                /\ Over(s) => after = before /\ Over(s)'
                /\ InFlight("exchange", s)' # {} => after = 2]_vars

\* C32 witness: an attempt has gone through every stage to its Device, with
\* time passing on the way.
C32_Witness ==
    \E s \in Issued("state") :
        /\ Stage(s) = 5 /\ ticks > 0
        /\ last.op = "handleInitialToken" /\ last.status = 200


-----------------------------------------------------------------------------
\* Claims about Housekeeping (SpecHouse).

\* C33: a run of executeTasks calls every task of its registry, also when
\* one of them throws, and the runs go on afterwards.
C33_RunContinuesPastFailure ==
    [][/\ (last.op = "none" /\ last'.op = "executeTasks")
            => Elements(executed') =
                  Elements(IF last'.arg = "minor" THEN minorTasks
                                                  ELSE majorTasks)
       /\ last'.phase # "exit"]_vars


-----------------------------------------------------------------------------
\* Claims about the routes (SpecRoute).

\* C34: whenever a route invokes its callback, either consume of the
\* route's bucket has just granted tokenCount tokens to the caller's
\* address, in the same segment, or the request carries the service secret
\* on a service route; and on a user route the segment before was a
\* verifyRequest that succeeded.
C34_LimiterGatesCallback ==
    [][last'.op = "callback" =>
          /\ \/ /\ last'.arg >= 1
                /\ consume(last'.ip, last'.arg).ok
                /\ tokens' = consume(last'.ip, last'.arg).tokens
             \/ /\ last'.pc = "service"
                /\ last'.auth = Bearer(serviceToken)
          /\ last'.pc = "user" =>
                last.op = "verifyRequest" /\ last.passed]_vars

\* C34 witness: the callback of a user route was invoked for an identified
\* user whose address held one token only.
C34_Witness ==
    /\ last.op = "callback" /\ last.pc = "user" /\ last.user # NoUser
    /\ ~canConsume(last.ip, 1)


-----------------------------------------------------------------------------
\* Claims about the redirect and the account of a login attempt (Spec).

\* C35: a handleResponse call that consumes a state takes the redirect and
\* the client state of the entry handleLogin had stored under that state,
\* and the 302 it answers with the hand-off token has that redirect, a
\* member of allowedHosts, as its target and that client state as its
\* state; the call's only parameter that counts is the state.
C35_RedirectIsTheRecordedOne ==
    [][/\ \A c \in Calls :
             (calls[c].pc # "exchange" /\ calls'[c].pc = "exchange")
                => LET s == calls'[c].arg
                   IN /\ MapHas(activeStates, s) /\ ~MapHas(activeStates', s)
                      /\ calls'[c].local.redirect = activeStates[s].redirect
                      /\ calls'[c].local.clientState
                            = activeStates[s].clientState
       /\ (last'.op = "handleResponse" /\ last'.status = 302)
             => \E c \in Calls :
                   /\ calls[c].pc = "exchange" /\ calls'[c].pc = "idle"
                   /\ last'.arg = calls[c].arg
                   /\ last'.body.target = calls[c].local.redirect
                   /\ last'.body.target \in allowedHosts
                   /\ last'.body.state = calls[c].local.clientState
                   /\ MapHas(authTokens', last'.body.token)]_vars

\* C35 witness: the state of a first attempt was consumed, and the 302 of a
\* second attempt carries the client state of the second.
C35_Witness ==
    /\ last.op = "handleResponse" /\ last.status = 302
    /\ last.arg = 2 /\ last.body.state = "abc123"
    /\ Used(1) = 1


\* C36: every Device was registered by the redemption of a hand-off token
\* and belongs to the account the exchange had returned when that token was
\* minted, whatever other attempts run beside it; no hand-off token has
\* yielded two Devices; and the hand-off tokens in the table and the
\* redemptions under way carry the account of their exchange.
C36_DeviceOfExchangedAccount ==
    /\ \A row \in account_tokens :
          /\ row.token \in Issued("refresh")
          /\ minted[row.token].from \in Issued("handoff")
          /\ row.user = minted[minted[row.token].from].account
          /\ \A other \in account_tokens :
                minted[other.token].from = minted[row.token].from
                   => other = row
    /\ \A h \in DOMAIN authTokens :
          h \in Issued("handoff") /\ authTokens[h].id = minted[h].account
    /\ \A c \in Calls :
          calls[c].pc = "insert"
             => /\ calls[c].arg \in Issued("handoff")
                /\ calls[c].local.id = minted[calls[c].arg].account

\* C36 witness: the exchanges of two users resolved, for accounts 1 and 2;
\* the hand-off token minted second, for account 2, was redeemed first and
\* its Device is that of account 2, while the token of account 1 is still in
\* the table.
C36_Witness ==
    /\ MapHas(authTokens, 1) /\ authTokens[1].id = 1
    /\ \E row \in account_tokens :
          row.user = 2 /\ minted[row.token].from = 2


-----------------------------------------------------------------------------
\* Claims about requests of any size (SpecOversize).

\* C37 as stated: after a consume that returned true, whatever its size, the
\* key's counter does not exceed the tokens there are at that instant.
C37_NeverInDebt ==
    (last.op = "consume" /\ last.passed)
        => /\ tokensUsed(last.ip) <= totalTokens
           /\ canConsume(last.ip, 0)

\* C37 amended: after a consume of at most the capacity that returned true,
\* the key's counter does not exceed the tokens there are at that instant,
\* and canConsume(key, 0) is true.
C37_NoDebtUpToCapacity ==
    (last.op = "consume" /\ last.passed /\ last.arg <= limiter.capacity)
        => /\ tokensUsed(last.ip) <= totalTokens
           /\ canConsume(last.ip, 0)

\* C37 witness: a consume of the whole capacity was granted and left the
\* key with nothing, not even one token, and no debt.
C37_Witness ==
    /\ last.op = "consume" /\ last.passed /\ last.arg = limiter.capacity
    /\ tokensUsed(last.ip) = totalTokens
    /\ ~canConsume(last.ip, 1)


-----------------------------------------------------------------------------
\* Claims about concurrent verifyRequest calls (SpecRace).

-----------------------------------------------------------------------------
\* Claims about the Discord adapter (SpecProvider).

\* The refresh token the provider issued last for a user.
Latest(user) ==
    LET issued == {t \in Issued("provider") : minted[t].account = user}
    IN CHOOSE t \in issued : \A other \in issued : other <= t

\* C39: no refresh token is sent to the provider twice (a token the provider
\* did not answer with a new pair may be sent again; two pairs issued from
\* one refresh token are two sends of it), and whenever no call of the
\* adapter is under way for a user, the accounts table holds the refresh
\* token the provider issued last for that user.
C39_StoredIsLatestSentOnce ==
    /\ \A t \in Issued("provider") : \A other \in Issued("provider") :
          t # other /\ minted[t].from # 0 => minted[t].from # minted[other].from
    /\ \A user \in DOMAIN accounts :
          (\A c \in Calls : calls[c].pc = "idle" \/ calls[c].arg # user)
             => accounts[user] = Latest(user)

-----------------------------------------------------------------------------
\* Claims about the expiry of a Device (SpecRotate).

\* The Devices whose row a step replaced: the row is gone and the Device
\* is still there.
Replaced ==
    {row \in account_tokens :
        /\ row \notin account_tokens'
        /\ \E new \in account_tokens' : new.id = row.id}

\* C40: a refresh token is accepted only while the expires_at of its Device
\* is strictly in the future: when refreshDevice's UPDATE settles for a
\* token whose Device has expired, the call is answered 401 and no row
\* changes, whether or not the sweep has removed the row; a step that
\* replaces the row of a Device replaces one row only, the row was not
\* expired, and the new row is that Device and account with expires_at
\* 30 days after the present second.
C40_RefreshOnlyBeforeExpiry ==
    [][/\ \A c \in Calls :
            (/\ calls[c].pc = "update"
             /\ calls'[c].pc # "update"
             /\ \A row \in account_tokens :
                   row.token = calls[c].arg => row.expires_at <= seconds)
               => /\ last'.status = 401
                  /\ account_tokens' = account_tokens
       /\ Cardinality(Replaced) <= 1
       /\ \A row \in Replaced :
            /\ row.expires_at > seconds
            /\ \E new \in account_tokens' :
                  /\ new.id = row.id
                  /\ new.user = row.user
                  /\ new.token # row.token
                  /\ new.expires_at = seconds' + 30 * 24 * 60 * 60
                  /\ account_tokens' = (account_tokens \ {row}) \cup {new}]_vars

\* A Device was rotated at the start and expires 30 days later, time has
\* passed to the expiry of the other Devices, and the refresh token of one
\* of them, whose row is still in the Store, has just been answered 401.
C40_Witness ==
    /\ \E row \in account_tokens :
          /\ row.token \in 1..rand
          /\ row.expires_at = StartSeconds + 30 * 24 * 60 * 60
    /\ ticks > 0
    /\ last.op = "handleRefreshToken"
    /\ last.status = 401
    /\ \E row \in account_tokens :
          /\ row.token = last.arg
          /\ row.token \in Earlier
          /\ row.expires_at <= seconds

====
